---- MODULE Spec2Model ----
(***************************************************************************)
(* A model of the mexpr micro-expression engine: the dynamic values, the   *)
(* AST the parser builds, and the tree-walking interpreter, as a state     *)
(* machine in which several Run calls may be in progress on one AST.       *)
(*                                                                         *)
(* Strings are sequences of one-character strings.  Numbers are exact      *)
(* rationals n/d (float64 restricted to values the model's arithmetic      *)
(* keeps exact); d = 0 stands for the non-finite float64 values (+Inf,     *)
(* -Inf, NaN).  An array value is a Go slice header: the identity of its   *)
(* backing store, an offset, a length, and the backing store's contents.   *)
(*                                                                         *)
(* Calls of Run interleave between steps of interpreter.run; each store    *)
(* into and each load from a slot of a slice node's Value is a step of     *)
(* its own, which is the finest grain at which the unsynchronized          *)
(* accesses of two calls are told apart here.                              *)
(***************************************************************************)
EXTENDS Integers, Sequences, FiniteSets, TLC

VARIABLES
    suite,    \* which expressions and inputs the behaviour draws from
    expr,     \* index of the parsed expression among the suite's
    ast,      \* AST instance -> tree; instance 0 is the AST shared by the callers
    pc,       \* per caller: "idle", "running", "done", "panicked"
    mode,     \* per caller: "shared" (runs on instance 0) or "fresh" (own new parse)
    strict,   \* per caller: the interpreter's strict option of the current run
    given,    \* per caller: the input value as it was when Run was called
    inp,      \* per caller: the caller-owned input value as it is now
    stack,    \* per caller: the frames of the recursive calls of interpreter.run
    ret,      \* per caller: the (value, error) the last returned call produced
    result,   \* per caller: what Run returned (or the panic that ended it)
    solo,     \* per caller: no other run used the same AST instance meanwhile
    wrote,    \* per caller: the caller has written into the array Run returned
    alone,    \* the outcome of the last call that ran on an AST parsed for it alone
    source,   \* the expression text handed to Parse
    parsed,   \* what Parse returned for source, once it was called
    checked   \* per caller: what the type checker returned for an example value

vars == <<suite, expr, ast, pc, mode, strict, given, inp, stack, ret,
          result, solo, wrote, alone, source, parsed, checked>>

(***************************************************************************)
(* Dynamic values (Go's any).                                              *)
(***************************************************************************)
Nil == [k |-> "nil"]
Bool(b) == [k |-> "bool", b |-> b]
Str(s) == [k |-> "string", s |-> s]
GoInt(n) == [k |-> "int", n |-> n]

RECURSIVE GCD(_, _)
GCD(a, b) == IF b = 0 THEN a ELSE GCD(b, a % b)

Abs(n) == IF n < 0 THEN -n ELSE n

Sgn(n) == IF n < 0 THEN -1 ELSE IF n = 0 THEN 0 ELSE 1

\* A float64 as the rational n/d in lowest terms with d >= 0; d = 0 is a
\* non-finite value: 1/0 is +Inf, -1/0 is -Inf, 0/0 is NaN.
Float(n, d) ==
    IF d = 0 THEN [k |-> "float64", n |-> Sgn(n), d |-> 0]
    ELSE LET g == GCD(Abs(n), Abs(d))
         IN  [k |-> "float64", n |-> Sgn(d) * (n \div g), d |-> Abs(d) \div g]

Num(n) == Float(n, 1)

\* A slice header over backing store st: elements back[off+1 .. off+len];
\* the capacity is Len(back) - off.
Arr(st, off, len, back) ==
    [k |-> "[]any", st |-> st, off |-> off, len |-> len, back |-> back]

MapV(m) == [k |-> "map[string]any", m |-> m]

NoErr == [k |-> "nil"]
Err(offset, msg, args) == [k |-> "error", offset |-> offset, msg |-> msg, args |-> args]

(***************************************************************************)
(* conversions.go                                                          *)
(***************************************************************************)
isNumber(v) == v.k \in {"int", "float64"}

isString(v) == v.k = "string"

isSlice(v) == v.k = "[]any"

\* toNumber: the float64 of a numeric value, or the conversion error.
toNumber(node, v) ==
    CASE v.k = "float64" -> [val |-> v, err |-> NoErr]
      [] v.k = "int" -> [val |-> Num(v.n), err |-> NoErr]
      [] OTHER -> [val |-> Num(0),
                   err |-> Err(node.Offset, "unable to convert to number: %v", <<v>>)]

\* Comparisons and arithmetic of float64 values.  A comparison with NaN is false.
IsNaN(x) == x.d = 0 /\ x.n = 0

FLess(x, y) ==
    /\ ~IsNaN(x) /\ ~IsNaN(y)
    /\ IF x.d = 0 \/ y.d = 0
       THEN (x.d = 0 /\ x.n < 0 /\ ~(y.d = 0 /\ y.n < 0))
            \/ (y.d = 0 /\ y.n > 0 /\ ~(x.d = 0 /\ x.n > 0))
       ELSE x.n * y.d < y.n * x.d

FEq(x, y) == ~IsNaN(x) /\ ~IsNaN(y) /\ x.n = y.n /\ x.d = y.d

FAdd(x, y) ==
    IF x.d = 0 /\ y.d = 0
    THEN (IF x.n = y.n THEN x ELSE Float(0, 0))
    ELSE Float(x.n * y.d + y.n * x.d, x.d * y.d)

FNeg(x) == Float(-x.n, x.d)

FSub(x, y) == FAdd(x, FNeg(y))

FMul(x, y) == Float(x.n * y.n, x.d * y.d)

\* left / right of float64: a zero divisor gives a non-finite quotient.
FDiv(x, y) ==
    IF y.d = 0 THEN (IF x.d = 0 THEN Float(0, 0) ELSE Float(0, 1))
    ELSE IF y.n = 0 THEN Float(x.n, 0)
    ELSE Float(x.n * y.d * Sgn(y.n), x.d * Abs(y.n))

\* int(x): truncation toward zero.
Trunc(x) == IF x.n < 0 THEN -((-x.n) \div x.d) ELSE x.n \div x.d

\* Go's a % b on ints: the remainder has the sign of the dividend.
IntRem(a, b) == Sgn(a) * (Abs(a) % Abs(b))

RECURSIVE IPow(_, _)
IPow(b, e) == IF e = 0 THEN 1 ELSE b * IPow(b, e - 1)

\* math.Pow for an integral exponent (the exponents the model's expressions use).
FPow(x, y) ==
    LET e == Trunc(y)
    IN  IF e >= 0 THEN Float(IPow(x.n, e), IPow(x.d, e))
        ELSE Float(IPow(x.d, -e) * (IF x.n < 0 /\ (-e) % 2 = 1 THEN -1 ELSE 1),
                   IPow(Abs(x.n), -e))

(***************************************************************************)
(* Text: characters in byte order, case folding, and fmt's %v.             *)
(***************************************************************************)
Digits == <<"0", "1", "2", "3", "4", "5", "6", "7", "8", "9">>

Upper == <<"A", "B", "C", "D", "E", "F", "G", "H", "I", "J", "K", "L", "M",
           "N", "O", "P", "Q", "R", "S", "T", "U", "V", "W", "X", "Y", "Z">>

Lower == <<"a", "b", "c", "d", "e", "f", "g", "h", "i", "j", "k", "l", "m",
           "n", "o", "p", "q", "r", "s", "t", "u", "v", "w", "x", "y", "z">>

\* The characters of the model in byte order.
Chars == <<" ", "+", "-", ".", ":">> \o Digits \o <<"<", ">">> \o Upper
         \o <<"[", "]">> \o Lower

Rank(c) == CHOOSE i \in 1..Len(Chars) : Chars[i] = c

IndexIn(seq, c) == CHOOSE i \in 1..Len(seq) : seq[i] = c

InSeq(seq, c) == \E i \in 1..Len(seq) : seq[i] = c

\* strings.ToLower / strings.ToUpper
ToLower(s) == [i \in 1..Len(s) |->
                 IF InSeq(Upper, s[i]) THEN Lower[IndexIn(Upper, s[i])] ELSE s[i]]

ToUpper(s) == [i \in 1..Len(s) |->
                 IF InSeq(Lower, s[i]) THEN Upper[IndexIn(Lower, s[i])] ELSE s[i]]

\* s < t in byte order
RECURSIVE StrLess(_, _)
StrLess(s, t) ==
    IF t = <<>> THEN FALSE
    ELSE IF s = <<>> THEN TRUE
    ELSE IF s[1] # t[1] THEN Rank(s[1]) < Rank(t[1])
    ELSE StrLess(Tail(s), Tail(t))

\* strings.HasPrefix, strings.HasSuffix, strings.Contains
HasPrefix(s, pre) == Len(pre) <= Len(s) /\ SubSeq(s, 1, Len(pre)) = pre

HasSuffix(s, suf) ==
    Len(suf) <= Len(s) /\ SubSeq(s, Len(s) - Len(suf) + 1, Len(s)) = suf

Contains(s, sub) ==
    \E i \in 0..(Len(s) - Len(sub)) : SubSeq(s, i + 1, i + Len(sub)) = sub

RECURSIVE DigitsOf(_)
DigitsOf(n) ==
    IF n < 10 THEN <<Digits[n + 1]>>
    ELSE Append(DigitsOf(n \div 10), Digits[(n % 10) + 1])

FmtInt(n) == IF n < 0 THEN <<"-">> \o DigitsOf(-n) ELSE DigitsOf(n)

\* The longest fraction the model expands (float64 holds about 17 digits).
MaxFracDigits == 17

\* The decimal digits of r/d, 0 <= r < d, at most left of them.
RECURSIVE FracDigits(_, _, _)
FracDigits(r, d, left) ==
    IF r = 0 \/ left = 0 THEN <<>>
    ELSE <<Digits[((r * 10) \div d) + 1]>> \o FracDigits((r * 10) % d, d, left - 1)

RECURSIVE LeadingZeros(_)
LeadingZeros(s) ==
    IF s # <<>> /\ s[1] = "0" THEN 1 + LeadingZeros(Tail(s)) ELSE 0

RECURSIVE StripTrailingZeros(_)
StripTrailingZeros(s) ==
    IF s # <<>> /\ s[Len(s)] = "0"
    THEN StripTrailingZeros(SubSeq(s, 1, Len(s) - 1)) ELSE s

Zeros(n) == [i \in 1..n |-> "0"]

\* %v of a float64: %g with the shortest digits; the exponent form is used
\* when the decimal exponent is below -4 or at least 6 (shown here with a
\* positive exponent only, which is all a model value reaches).
FmtFloat(x) ==
    IF x.d = 0 THEN (IF x.n > 0 THEN <<"+", "I", "n", "f">>
                     ELSE IF x.n < 0 THEN <<"-", "I", "n", "f">>
                     ELSE <<"N", "a", "N">>)
    ELSE IF x.n = 0 THEN <<"0">>
    ELSE
      LET ip    == Abs(x.n) \div x.d
          ipart == IF ip = 0 THEN <<>> ELSE DigitsOf(ip)
          fpart == FracDigits(Abs(x.n) % x.d, x.d, MaxFracDigits)
          all   == ipart \o fpart
          lead  == LeadingZeros(all)
          digs  == StripTrailingZeros(SubSeq(all, lead + 1, Len(all)))
          dp    == Len(ipart) - lead
          sign  == IF x.n < 0 THEN <<"-">> ELSE <<>>
          ex    == dp - 1
          body  ==
            IF ex >= 6
            THEN <<digs[1]>>
                 \o (IF Len(digs) > 1 THEN <<".">> \o Tail(digs) ELSE <<>>)
                 \o <<"e", "+">> \o (IF ex < 10 THEN <<"0">> ELSE <<>>) \o DigitsOf(ex)
            ELSE IF dp <= 0 THEN <<"0", ".">> \o Zeros(-dp) \o digs
            ELSE IF Len(digs) <= dp THEN digs \o Zeros(dp - Len(digs))
            ELSE SubSeq(digs, 1, dp) \o <<".">> \o SubSeq(digs, dp + 1, Len(digs))
      IN  sign \o body

\* The keys of a map in byte order, as fmt prints them.
RECURSIVE SortedKeys(_)
SortedKeys(ks) ==
    IF ks = {} THEN <<>>
    ELSE LET m == CHOOSE x \in ks : \A y \in ks \ {x} : StrLess(x, y)
         IN  <<m>> \o SortedKeys(ks \ {m})

\* The elements a slice header shows: back[off+1 .. off+len].
Elems(v) == SubSeq(v.back, v.off + 1, v.off + v.len)

RECURSIVE JoinWith(_, _)
JoinWith(parts, sep) ==
    IF parts = <<>> THEN <<>>
    ELSE IF Len(parts) = 1 THEN parts[1]
    ELSE parts[1] \o sep \o JoinWith(Tail(parts), sep)

\* fmt.Sprintf("%v", v)
RECURSIVE FormatV(_)
FormatV(v) ==
    CASE v.k = "nil" -> <<"<", "n", "i", "l", ">">>
      [] v.k = "bool" -> IF v.b THEN <<"t", "r", "u", "e">> ELSE <<"f", "a", "l", "s", "e">>
      [] v.k = "string" -> v.s
      [] v.k = "int" -> FmtInt(v.n)
      [] v.k = "float64" -> FmtFloat(v)
      [] v.k = "[]any" ->
           <<"[">> \o JoinWith([i \in 1..v.len |-> FormatV(Elems(v)[i])], <<" ">>) \o <<"]">>
      [] v.k = "map[string]any" ->
           LET ks == SortedKeys(DOMAIN v.m)
           IN  <<"m", "a", "p", "[">>
               \o JoinWith([i \in 1..Len(ks) |-> ks[i] \o <<":">> \o FormatV(v.m[ks[i]])],
                           <<" ">>)
               \o <<"]">>

\* toString: strings as they are, anything else through %v.
toString(v) == IF v.k = "string" THEN v.s ELSE FormatV(v)

\* toBool: truthiness.
toBool(v) ==
    CASE v.k = "bool" -> v.b
      [] v.k = "int" -> v.n > 0
      [] v.k = "float64" -> FLess(Num(0), v)
      [] v.k = "string" -> Len(v.s) > 0
      [] v.k = "[]any" -> v.len > 0
      [] v.k = "map[string]any" -> DOMAIN v.m # {}
      [] OTHER -> FALSE

\* normalize: every numeric kind becomes float64 for the equality checks.
normalize(v) == IF v.k = "int" THEN Num(v.n) ELSE v


(***************************************************************************)
(* The AST.  A node is a record; a node is named by its path from the root *)
(* (a sequence of "L" and "R"), which stands for the Go pointer to it.     *)
(***************************************************************************)
NilNode == [Type |-> "nil"]

Node(type, value, offset, left, right) ==
    [Type |-> type, Value |-> value, Offset |-> offset, Left |-> left, Right |-> right]

RECURSIVE NodeAt(_, _)
NodeAt(t, path) ==
    IF path = <<>> THEN t
    ELSE IF path[1] = "L" THEN NodeAt(t.Left, Tail(path))
    ELSE NodeAt(t.Right, Tail(path))

\* The tree with element idx (0-based) of the Value of the node at path set to x.
RECURSIVE SetValueAt(_, _, _, _)
SetValueAt(t, path, idx, x) ==
    IF path = <<>> THEN [t EXCEPT !.Value.back[idx + 1] = x]
    ELSE IF path[1] = "L" THEN [t EXCEPT !.Left = SetValueAt(t.Left, Tail(path), idx, x)]
    ELSE [t EXCEPT !.Right = SetValueAt(t.Right, Tail(path), idx, x)]

\* Backing stores: the Value of a slice node of an AST instance, an array of
\* the caller's input, or an array a run allocated.
AstStore(inst, path) == [own |-> "ast", inst |-> inst, path |-> path]
InStore(id) == [own |-> "in", id |-> id]
RunStore(p, path) == [own |-> "run", p |-> p, path |-> path]

IsAstRef(v) == v.k = "[]any" /\ v.st.own = "ast"

\* The backing store's contents as of now: a slice node's Value is read from
\* the AST, every other array carries its own.
Back(A, v) == IF IsAstRef(v) THEN NodeAt(A[v.st.inst], v.st.path).Value.back ELSE v.back

Cap(A, v) == Len(Back(A, v)) - v.off

\* v[i] of a []any, i counted from 0 and within the length.
At(A, v, i) == Back(A, v)[v.off + i + 1]

\* A value with every array read out of the AST as of now.
RECURSIVE Resolve(_, _)
Resolve(A, v) ==
    CASE v.k = "[]any" ->
           LET b == Back(A, v)
           IN  [v EXCEPT !.back = [i \in 1..Len(b) |-> Resolve(A, b[i])]]
      [] v.k = "map[string]any" -> MapV([key \in DOMAIN v.m |-> Resolve(A, v.m[key])])
      [] OTHER -> v

\* What a value shows its holder: arrays as their elements, whatever store
\* holds them.
RECURSIVE Content(_)
Content(v) ==
    CASE v.k = "[]any" ->
           [k |-> "[]any", a |-> [i \in 1..v.len |-> Content(v.back[v.off + i])]]
      [] v.k = "map[string]any" -> MapV([key \in DOMAIN v.m |-> Content(v.m[key])])
      [] OTHER -> v


(***************************************************************************)
(* interpreter.run, one recursive call at a time.  A frame is one call:    *)
(* the node (by path), the ambient value, where the call stands (pc), and  *)
(* its locals.  Each handler maps the frame, and the (value, error) the    *)
(* call it was waiting for returned, to what the call does next: call a    *)
(* child, go on, return, or panic; w is a write into the node's Value.     *)
(* C is the run's context: the caller p, the AST instances A, the          *)
(* instance inst the run walks, and the strict option.                     *)
(***************************************************************************)
Frame(n, v) ==
    [n |-> n, v |-> v, pc |-> 0, l |-> Nil, r |-> Nil, s |-> Num(0),
     i |-> 0, item |-> Nil, acc |-> <<>>]

ORet(val, err) == [op |-> "ret", val |-> val, err |-> err, w |-> <<>>]
OCall(side, v, f) == [op |-> "call", side |-> side, v |-> v, f |-> f, w |-> <<>>]
ONext(f) == [op |-> "next", f |-> f, w |-> <<>>]
OPanic(msg) == [op |-> "panic", msg |-> msg, w |-> <<>>]
WithWrite(o, idx, x) == [o EXCEPT !.w = <<idx, x>>]

sAt == <<"@">>
sLength == <<"l", "e", "n", "g", "t", "h">>
sLower == <<"l", "o", "w", "e", "r">>
sUpper == <<"u", "p", "p", "e", "r">>
sMinus == <<"-">>

\* A map lookup that gives nil for an absent key whatever the strict option.
runIdentifierLenient(C, node, f) ==
    IF f.v.k = "map[string]any"
    THEN ORet(IF node.Value.s \in DOMAIN f.v.m THEN f.v.m[node.Value.s] ELSE Nil, NoErr)
    ELSE ORet(Nil, Err(node.Offset, "cannot get %v from %v", <<node.Value, f.v>>))

\* case NodeIdentifier
runIdentifier(C, node, f) ==
    LET name  == node.Value.s
        value == f.v
    IN  IF name = sAt THEN ORet(value, NoErr)
        ELSE IF name = sLength /\ value.k = "string" THEN ORet(GoInt(Len(value.s)), NoErr)
        ELSE IF name = sLength /\ value.k = "[]any" THEN ORet(GoInt(value.len), NoErr)
        ELSE IF name = sLower /\ value.k = "string" THEN ORet(Str(ToLower(value.s)), NoErr)
        ELSE IF name = sUpper /\ value.k = "string" THEN ORet(Str(ToUpper(value.s)), NoErr)
        ELSE IF value.k = "map[string]any" /\ ~C.strict
             THEN ORet(IF name \in DOMAIN value.m THEN value.m[name] ELSE Nil, NoErr)
        ELSE IF value.k = "map[string]any" /\ name \in DOMAIN value.m
             THEN ORet(value.m[name], NoErr)
        ELSE ORet(Nil, Err(node.Offset, "cannot get %v from %v", <<node.Value, value>>))

\* case NodeFieldSelect
runFieldSelect(C, node, f, rv) ==
    CASE f.pc = 0 -> OCall("L", f.v, [f EXCEPT !.pc = 1])
      [] f.pc = 1 -> IF rv.err # NoErr THEN ORet(Nil, rv.err)
                     ELSE OCall("R", rv.val, [f EXCEPT !.pc = 2])
      [] f.pc = 2 -> ORet(rv.val, rv.err)

\* A negative index or bound counts from the end.
FromEnd(x, len) == IF FLess(x, Num(0)) THEN FAdd(x, Num(len)) ELSE x

\* A slice of a []any that leaves the element at end out.
SliceArrayExclusive(A, left, start, end) ==
    LET lo == Trunc(FromEnd(start, left.len))
        hi == Trunc(FromEnd(end, left.len))
    IN  IF 0 <= lo /\ lo <= hi /\ hi <= Cap(A, left)
        THEN ORet(Arr(left.st, left.off + lo, hi - lo, left.back), NoErr)
        ELSE OPanic("slice bounds out of range")

\* left[int(start) : int(end)+1] of a []any: Go checks the bounds against the
\* capacity, and the result shares left's backing store.
SliceArray(A, left, start, end) ==
    LET lo == Trunc(FromEnd(start, left.len))
        hi == Trunc(FromEnd(end, left.len)) + 1
    IN  IF 0 <= lo /\ lo <= hi /\ hi <= Cap(A, left)
        THEN ORet(Arr(left.st, left.off + lo, hi - lo, left.back), NoErr)
        ELSE OPanic("slice bounds out of range")

\* left[int(start) : int(end)+1] of a string.
SliceString(left, start, end) ==
    LET lo == Trunc(FromEnd(start, Len(left)))
        hi == Trunc(FromEnd(end, Len(left))) + 1
    IN  IF 0 <= lo /\ lo <= hi /\ hi <= Len(left)
        THEN ORet(Str(SubSeq(left, lo + 1, hi)), NoErr)
        ELSE OPanic("slice bounds out of range")

\* left[int(idx)] of a []any.
IndexArray(A, left, idx) ==
    LET i == Trunc(FromEnd(idx, left.len))
    IN  IF 0 <= i /\ i < left.len THEN ORet(At(A, left, i), NoErr)
        ELSE OPanic("index out of range")

\* string(left[int(idx)]) of a string.
IndexString(left, idx) ==
    LET i == Trunc(FromEnd(idx, Len(left)))
    IN  IF 0 <= i /\ i < Len(left) THEN ORet(Str(<<left[i + 1]>>), NoErr)
        ELSE OPanic("index out of range")

\* case NodeArrayIndex
runArrayIndex(C, node, f, rv) ==
    CASE f.pc = 0 -> OCall("L", f.v, [f EXCEPT !.pc = 1])
      [] f.pc = 1 ->
           IF rv.err # NoErr THEN ORet(Nil, rv.err)
           ELSE IF ~isSlice(rv.val) /\ ~isString(rv.val)
           THEN ORet(Nil, Err(node.Offset, "can only index strings or arrays but got %v",
                              <<rv.val>>))
           ELSE OCall("R", f.v, [f EXCEPT !.pc = 2, !.l = rv.val])
      [] f.pc = 2 ->
           IF rv.err # NoErr THEN ORet(Nil, rv.err)
           ELSE IF isSlice(rv.val)
           THEN \* start, err := toNumber(ast, resultRight.([]any)[0])
                IF rv.val.len < 1 THEN OPanic("index out of range")
                ELSE LET c == toNumber(node, At(C.A, rv.val, 0))
                     IN  IF c.err # NoErr THEN ORet(Nil, c.err)
                         ELSE ONext([f EXCEPT !.pc = 3, !.r = rv.val, !.s = c.val])
           ELSE IF isNumber(rv.val)
           THEN LET idx == toNumber(node, rv.val).val
                IN  IF isSlice(f.l) THEN IndexArray(C.A, f.l, idx)
                    ELSE IndexString(toString(f.l), idx)
           ELSE ORet(Nil, Err(node.Offset, "array index must be number or slice %v",
                              <<rv.val>>))
      [] f.pc = 3 ->
           \* end, err := toNumber(ast, resultRight.([]any)[1])
           IF f.r.len < 2 THEN OPanic("index out of range")
           ELSE LET c == toNumber(node, At(C.A, f.r, 1))
                IN  IF c.err # NoErr THEN ORet(Nil, c.err)
                    ELSE IF isSlice(f.l) THEN SliceArray(C.A, f.l, f.s, c.val)
                    ELSE SliceString(toString(f.l), f.s, c.val)

\* A NodeSlice that keeps the first start bound other than 0 it stored in
\* the node as a cache.
runSliceCached(C, node, f, rv) ==
    CASE f.pc = 0 -> OCall("L", f.v, [f EXCEPT !.pc = 1])
      [] f.pc = 1 -> IF rv.err # NoErr THEN ORet(Nil, rv.err)
                     ELSE OCall("R", f.v, [f EXCEPT !.pc = 2, !.l = rv.val])
      [] f.pc = 2 ->
           IF rv.err # NoErr THEN ORet(Nil, rv.err)
           ELSE WithWrite(ONext([f EXCEPT !.pc = 3, !.r = rv.val]), 0,
                          IF node.Value.back[1] = Num(0) THEN f.l ELSE node.Value.back[1])
      [] f.pc = 3 ->
           WithWrite(ORet(Arr(AstStore(C.inst, f.n), 0, node.Value.len, <<>>), NoErr), 1, f.r)

\* case NodeSlice: the bounds are stored into the node's own Value, and that
\* Value is what the call returns.
runSlice(C, node, f, rv) ==
    CASE f.pc = 0 -> OCall("L", f.v, [f EXCEPT !.pc = 1])
      [] f.pc = 1 -> IF rv.err # NoErr THEN ORet(Nil, rv.err)
                     ELSE OCall("R", f.v, [f EXCEPT !.pc = 2, !.l = rv.val])
      [] f.pc = 2 ->
           IF rv.err # NoErr THEN ORet(Nil, rv.err)
           ELSE IF ~isSlice(node.Value) THEN OPanic("interface conversion")
           ELSE IF node.Value.len < 1 THEN OPanic("index out of range")
           ELSE WithWrite(ONext([f EXCEPT !.pc = 3, !.r = rv.val]), 0, f.l)
      [] f.pc = 3 ->
           IF node.Value.len < 2 THEN OPanic("index out of range")
           ELSE WithWrite(ORet(Arr(AstStore(C.inst, f.n), 0, node.Value.len, <<>>), NoErr),
                          1, f.r)

\* case NodeLiteral
runLiteral(C, node, f) == ORet(node.Value, NoErr)

\* case NodeSign
runSign(C, node, f, rv) ==
    CASE f.pc = 0 -> OCall("R", f.v, [f EXCEPT !.pc = 1])
      [] f.pc = 1 ->
           IF rv.err # NoErr THEN ORet(Nil, rv.err)
           ELSE LET c == toNumber(node, rv.val)
                IN  IF c.err # NoErr THEN ORet(Nil, c.err)
                    ELSE IF node.Value.s = sMinus THEN ORet(FNeg(c.val), NoErr)
                    ELSE ORet(c.val, NoErr)

\* The operands of a binary node: the left one first, the right one only when
\* the left one returned no error.
Operands(f, rv) ==
    CASE f.pc = 0 -> OCall("L", f.v, [f EXCEPT !.pc = 1])
      [] f.pc = 1 -> IF rv.err # NoErr THEN ORet(Nil, rv.err)
                     ELSE OCall("R", f.v, [f EXCEPT !.pc = 2, !.l = rv.val])
      [] f.pc = 2 -> ORet(Nil, rv.err)


\* The capacity append gives a slice that has to grow from capacity old to
\* hold need elements (the doubling of Go's runtime for small slices).
GrowCap(old, need) == IF need > 2 * old THEN need ELSE 2 * old

\* The backing store of a new array: its elements, then unused slots up to cap.
Store(elems, cap) == elems \o [i \in 1..(cap - Len(elems)) |-> Nil]

\* append(append([]any{}, left...), right...)
Concat(C, f, left, right) ==
    LET n   == left.len
        m   == right.len
        tmp == IF n > 0 THEN GrowCap(0, n) ELSE 0
        cap == IF n + m > tmp THEN GrowCap(tmp, n + m) ELSE tmp
        els == [i \in 1..(n + m) |->
                  IF i <= n THEN At(C.A, left, i - 1) ELSE At(C.A, right, i - n - 1)]
    IN  Arr(RunStore(C.p, f.n), 0, n + m, Store(els, cap))

\* A division that does not look at its divisor.
DivideUnchecked(node, left, right) == ORet(FDiv(left, right), NoErr)

\* case NodeDivide of the switch over numeric operands.
Divide(node, left, right) ==
    IF FEq(right, Num(0))
    THEN ORet(Nil, Err(node.Offset, "cannot divide by zero", <<>>))
    ELSE ORet(FDiv(left, right), NoErr)

\* A concatenation with the operands the other way round.
ConcatStringsSwapped(C, resultLeft, resultRight) ==
    Str(toString(Resolve(C.A, resultRight)) \o toString(Resolve(C.A, resultLeft)))

\* toString(resultLeft) + toString(resultRight)
ConcatStrings(C, resultLeft, resultRight) ==
    Str(toString(Resolve(C.A, resultLeft)) \o toString(Resolve(C.A, resultRight)))

\* case NodeAdd, NodeSubtract, NodeMultiply, NodeDivide, NodeModulus, NodePower,
\* once both operands are there.
Arith(C, node, f, resultLeft, resultRight) ==
    IF node.Type = "NodeAdd" /\ (isString(resultLeft) \/ isString(resultRight))
    THEN ORet(ConcatStrings(C, resultLeft, resultRight), NoErr)
    ELSE IF node.Type = "NodeAdd" /\ isSlice(resultLeft) /\ isSlice(resultRight)
    THEN ORet(Concat(C, f, resultLeft, resultRight), NoErr)
    ELSE IF isNumber(resultLeft) /\ isNumber(resultRight)
    THEN LET left  == toNumber(node.Left, resultLeft).val
             right == toNumber(node.Right, resultRight).val
         IN  CASE node.Type = "NodeAdd" -> ORet(FAdd(left, right), NoErr)
               [] node.Type = "NodeSubtract" -> ORet(FSub(left, right), NoErr)
               [] node.Type = "NodeMultiply" -> ORet(FMul(left, right), NoErr)
               [] node.Type = "NodeDivide" -> Divide(node, left, right)
               [] node.Type = "NodeModulus" ->
                    IF Trunc(right) = 0 THEN OPanic("integer divide by zero")
                    ELSE ORet(GoInt(IntRem(Trunc(left), Trunc(right))), NoErr)
               [] node.Type = "NodePower" -> ORet(FPow(left, right), NoErr)
    ELSE ORet(Nil, Err(node.Offset, "cannot add incompatible types %v and %v",
                       <<resultLeft, resultRight>>))

runArith(C, node, f, rv) ==
    IF f.pc < 2 \/ rv.err # NoErr THEN Operands(f, rv)
    ELSE Arith(C, node, f, f.l, rv.val)

\* a == b of two interface values: "true", "false", or "panic" when both hold
\* the same uncomparable type (a []any or a map).
IfaceEq(a, b) ==
    IF a.k # b.k THEN "false"
    ELSE IF a.k \in {"[]any", "map[string]any"} THEN "panic"
    ELSE IF a.k = "float64" THEN (IF FEq(a, b) THEN "true" ELSE "false")
    ELSE IF a = b THEN "true" ELSE "false"

\* case NodeEqual ... NodeGreaterThanEqual, once both operands are there.
Compare(C, node, resultLeft, resultRight) ==
    IF node.Type \in {"NodeEqual", "NodeNotEqual"}
    THEN LET e == IfaceEq(normalize(resultLeft), normalize(resultRight))
         IN  IF e = "panic" THEN OPanic("comparing uncomparable type")
             ELSE ORet(Bool((e = "true") = (node.Type = "NodeEqual")), NoErr)
    ELSE LET l == toNumber(node.Left, resultLeft)
             r == toNumber(node.Right, resultRight)
         IN  IF l.err # NoErr THEN ORet(Nil, l.err)
             ELSE IF r.err # NoErr THEN ORet(Nil, r.err)
             ELSE CASE node.Type = "NodeGreaterThan" -> ORet(Bool(FLess(r.val, l.val)), NoErr)
                    [] node.Type = "NodeGreaterThanEqual" ->
                         ORet(Bool(FLess(r.val, l.val) \/ FEq(l.val, r.val)), NoErr)
                    [] node.Type = "NodeLessThan" -> ORet(Bool(FLess(l.val, r.val)), NoErr)
                    [] node.Type = "NodeLessThanEqual" ->
                         ORet(Bool(FLess(l.val, r.val) \/ FEq(l.val, r.val)), NoErr)

runCompare(C, node, f, rv) ==
    IF f.pc < 2 \/ rv.err # NoErr THEN Operands(f, rv)
    ELSE Compare(C, node, f.l, rv.val)

\* NodeAnd and NodeOr that skip the right operand when the left one decides.
runAndOrShortCircuit(C, node, f, rv) ==
    CASE f.pc = 0 -> OCall("L", f.v, [f EXCEPT !.pc = 1])
      [] f.pc = 1 ->
           IF rv.err # NoErr THEN ORet(Nil, rv.err)
           ELSE IF toBool(rv.val) = (node.Type = "NodeOr") THEN ORet(Bool(toBool(rv.val)), NoErr)
           ELSE OCall("R", f.v, [f EXCEPT !.pc = 2, !.l = rv.val])
      [] f.pc = 2 ->
           IF rv.err # NoErr THEN ORet(Nil, rv.err) ELSE ORet(Bool(toBool(rv.val)), NoErr)

\* case NodeAnd, NodeOr
runAndOr(C, node, f, rv) ==
    IF f.pc < 2 \/ rv.err # NoErr THEN Operands(f, rv)
    ELSE LET left  == toBool(f.l)
             right == toBool(rv.val)
         IN  IF node.Type = "NodeAnd" THEN ORet(Bool(left /\ right), NoErr)
             ELSE ORet(Bool(left \/ right), NoErr)

\* for _, item := range a { if item == x { return true } }; return false
RECURSIVE Member(_, _, _, _)
Member(A, a, i, x) ==
    IF i >= a.len THEN ORet(Bool(FALSE), NoErr)
    ELSE LET e == IfaceEq(At(A, a, i), x)
         IN  IF e = "panic" THEN OPanic("comparing uncomparable type")
             ELSE IF e = "true" THEN ORet(Bool(TRUE), NoErr)
             ELSE Member(A, a, i + 1, x)

\* needle in hay (case NodeIn); NodeContains is the same with the operands swapped.
InResult(C, needle, hay) ==
    IF hay.k = "[]any" THEN Member(C.A, hay, 0, needle)
    ELSE IF hay.k = "map[string]any"
    THEN LET key == toString(Resolve(C.A, needle))
         IN  ORet(Bool(key \in DOMAIN hay.m /\ hay.m[key] # Nil), NoErr)
    ELSE ORet(Bool(Contains(toString(Resolve(C.A, hay)), toString(Resolve(C.A, needle)))),
              NoErr)

\* case NodeIn, NodeContains, NodeStartsWith, NodeEndsWith
runStringOp(C, node, f, rv) ==
    IF f.pc < 2 \/ rv.err # NoErr THEN Operands(f, rv)
    ELSE LET resultLeft  == f.l
             resultRight == rv.val
             ls == toString(Resolve(C.A, resultLeft))
             rs == toString(Resolve(C.A, resultRight))
         IN  CASE node.Type = "NodeIn" -> InResult(C, resultLeft, resultRight)
               [] node.Type = "NodeContains" -> InResult(C, resultRight, resultLeft)
               [] node.Type = "NodeStartsWith" -> ORet(Bool(HasPrefix(ls, rs)), NoErr)
               [] node.Type = "NodeEndsWith" -> ORet(Bool(HasSuffix(ls, rs)), NoErr)

\* case NodeNot
runNot(C, node, f, rv) ==
    CASE f.pc = 0 -> OCall("R", f.v, [f EXCEPT !.pc = 1])
      [] f.pc = 1 -> IF rv.err # NoErr THEN ORet(Nil, rv.err)
                     ELSE ORet(Bool(~toBool(rv.val)), NoErr)

\* The capacity of results after n appends to an empty slice.
RECURSIVE AppendCap(_)
AppendCap(n) == IF n = 0 THEN 0 ELSE LET c == AppendCap(n - 1)
                                     IN  IF n > c THEN GrowCap(c, n) ELSE c

\* The loop of case NodeWhere from item i on: the next call of the predicate,
\* or the results when the items are through.
WhereLoop(C, f, i) ==
    IF i < f.l.len
    THEN LET item == At(C.A, f.l, i)
         IN  OCall("R", item, [f EXCEPT !.pc = 2, !.i = i, !.item = item])
    ELSE ORet(Arr(RunStore(C.p, f.n), 0, Len(f.acc), Store(f.acc, AppendCap(Len(f.acc)))),
              NoErr)

\* A NodeWhere that keeps every item, whatever the predicate gave.
runWhereKeepAll(C, node, f, rv) ==
    CASE f.pc = 0 -> OCall("L", f.v, [f EXCEPT !.pc = 1])
      [] f.pc = 1 ->
           IF rv.err # NoErr THEN ORet(Nil, rv.err)
           ELSE IF ~isSlice(rv.val) THEN OPanic("interface conversion")
           ELSE WhereLoop(C, [f EXCEPT !.l = rv.val], 0)
      [] f.pc = 2 -> WhereLoop(C, [f EXCEPT !.acc = Append(f.acc, f.item)], f.i + 1)

\* case NodeWhere.  The predicate's error is dropped (resultRight, _ := ...):
\* the err that the strict check reads is the left operand's, which is nil
\* by then.
runWhere(C, node, f, rv) ==
    CASE f.pc = 0 -> OCall("L", f.v, [f EXCEPT !.pc = 1])
      [] f.pc = 1 ->
           IF rv.err # NoErr THEN ORet(Nil, rv.err)
           ELSE IF ~isSlice(rv.val) THEN OPanic("interface conversion")
           ELSE WhereLoop(C, [f EXCEPT !.l = rv.val], 0)
      [] f.pc = 2 ->
           LET kept == IF toBool(rv.val) THEN Append(f.acc, f.item) ELSE f.acc
           IN  WhereLoop(C, [f EXCEPT !.acc = kept], f.i + 1)


(***************************************************************************)
(* The nodes the parser builds.                                            *)
(***************************************************************************)
Ident(name, offset) == Node("NodeIdentifier", Str(name), offset, NilNode, NilNode)

LitNum(n, offset) == Node("NodeLiteral", Num(n), offset, NilNode, NilNode)

LitStr(str, offset) == Node("NodeLiteral", Str(str), offset, NilNode, NilNode)

NotNode(offset, right) == Node("NodeNot", Nil, offset, NilNode, right)

SignNode(value, offset, right) == Node("NodeSign", Str(value), offset, NilNode, right)

\* newNodeParseRight
Bin(type, offset, left, right) == Node(type, Nil, offset, left, right)

\* The Value the parser gives a slice node: the two-element array that the
\* interpreter stores the bounds into.
SliceBounds == Arr([own |-> "ast"], 0, 2, <<Num(0), Num(0)>>)

\* left:right
SliceNode(offset, left, right) == Node("NodeSlice", SliceBounds, offset, left, right)

\* :right, with the dummy literal 0 as the start of the slice.
SliceFromStart(offset, right) == SliceNode(offset, LitNum(0, offset), right)

\* left where right
WhereNode(offset, left, right) == Node("NodeWhere", Nil, offset, left, right)


(***************************************************************************)
(* Bounds of the model.                                                    *)
(***************************************************************************)
\* The longest input array or string.
MaxLen == 3

\* Indexes and slice bounds of the inputs range over -MaxIdx..MaxIdx.
MaxIdx == 4

\* Input arrays have between 0 and MaxSpare unused slots after their elements.
MaxSpare == 1

Callers == {1, 2}

(***************************************************************************)
(* Inputs.                                                                 *)
(***************************************************************************)
kA == <<"a">>
kI == <<"i">>
kJ == <<"j">>
kK == <<"k">>
kS == <<"s">>
kX == <<"x">>
kY == <<"y">>
kId == <<"i", "d">>
kItems == <<"i", "t", "e", "m", "s">>

\* An array of the caller's: store id, elements, unused slots.
InArr(id, elems, spare) == Arr(InStore(id), 0, Len(elems), Store(elems, Len(elems) + spare))

Tens(n) == [i \in 1..n |-> Num(10 * i)]

Hello == <<"h", "e", "l", "l", "o">>

\* The arrays and strings an index or a slice is taken of.
Indexables ==
    {InArr(1, Tens(n), sp) : n \in 0..MaxLen, sp \in 0..MaxSpare}
    \cup {Str(SubSeq(Hello, 1, n)) : n \in 0..MaxLen}

Bounds == {Num(n) : n \in -MaxIdx..MaxIdx}

Numbers == {Num(n) : n \in -2..2} \cup {GoInt(0), GoInt(3), Float(1, 2)}

Seqs(S, n) == UNION {[1..m -> S] : m \in 0..n}

ItemPool == {MapV(kId :> Num(1)), MapV(kId :> Num(5)), MapV(kId :> GoInt(7)), MapV(<<>>)}

TruthPool == {Nil, Bool(TRUE), Bool(FALSE), Num(0), Num(2), GoInt(-1), Str(<<>>), Str(<<"x">>),
              MapV(<<>>), InArr(2, <<>>, 0), InArr(3, <<Nil>>, 0)}

(***************************************************************************)
(* The expressions: source text, the AST the parser returns for it, and    *)
(* the inputs it is run on.                                                *)
(***************************************************************************)
E(src, tree, ins) == [src |-> src, ast |-> tree, ins |-> ins]

\* a[k]
IndexExpr == Bin("NodeArrayIndex", 1, Ident(kA, 0), Ident(kK, 2))

\* a[i:j]
SliceExpr ==
    Bin("NodeArrayIndex", 1, Ident(kA, 0), SliceNode(3, Ident(kI, 2), Ident(kJ, 4)))

\* a[:j]
SliceToExpr == Bin("NodeArrayIndex", 1, Ident(kA, 0), SliceFromStart(2, Ident(kJ, 3)))

\* a[m:n] with literal bounds
SliceLit(m, n) ==
    Bin("NodeArrayIndex", 1, Ident(kA, 0), SliceNode(3, LitNum(m, 2), LitNum(n, 4)))

\* a[:-1]
SliceToLast ==
    Bin("NodeArrayIndex", 1, Ident(kA, 0), SliceFromStart(2, SignNode(sMinus, 3, LitNum(1, 4))))

\* x / y
DivExpr == Bin("NodeDivide", 2, Ident(kX, 0), Ident(kY, 4))

\* x / 0
DivLitExpr == Bin("NodeDivide", 2, Ident(kX, 0), LitNum(0, 4))

\* 1 / (y * 1)
DivMulExpr == Bin("NodeDivide", 2, LitNum(1, 0), Bin("NodeMultiply", 7, Ident(kY, 5), LitNum(1, 9)))

\* x / (y - y)
DivSubExpr == Bin("NodeDivide", 2, Ident(kX, 0), Bin("NodeSubtract", 7, Ident(kY, 5), Ident(kY, 9)))

\* x % y
ModExpr == Bin("NodeModulus", 2, Ident(kX, 0), Ident(kY, 4))

\* items where id > 3
WhereIdExpr ==
    WhereNode(6, Ident(kItems, 0), Bin("NodeGreaterThan", 15, Ident(kId, 12), LitNum(3, 17)))

\* items where @
WhereSelfExpr == WhereNode(6, Ident(kItems, 0), Ident(sAt, 12))

\* not (s.length < 2 and "e" in s)
MixedExpr ==
    NotNode(0,
      Bin("NodeAnd", 18,
          Bin("NodeLessThan", 14, Bin("NodeFieldSelect", 6, Ident(kS, 5), Ident(sLength, 7)),
              LitNum(2, 16)),
          Bin("NodeIn", 26, LitStr(<<"e">>, 22), Ident(kS, 29))))

\* i:j
BareSliceExpr == SliceNode(1, Ident(kI, 0), Ident(kJ, 2))

\* (a where @ > -i)[i:j]
WhereSliceExpr ==
    Bin("NodeArrayIndex", 17,
        WhereNode(3, Ident(kA, 1),
                  Bin("NodeGreaterThan", 11, Ident(sAt, 9), SignNode(sMinus, 13, Ident(kI, 14)))),
        SliceNode(19, Ident(kI, 18), Ident(kJ, 20)))

\* x + y
AddExpr == Bin("NodeAdd", 2, Ident(kX, 0), Ident(kY, 4))

\* x
NameExpr == Ident(kX, 0)

\* x == y
EqualExpr == Bin("NodeEqual", 2, Ident(kX, 0), Ident(kY, 5))

\* x != y
NotEqualExpr == Bin("NodeNotEqual", 2, Ident(kX, 0), Ident(kY, 5))

\* x in y
InExpr == Bin("NodeIn", 2, Ident(kX, 0), Ident(kY, 5))

\* y contains x
ContainsExpr == Bin("NodeContains", 2, Ident(kY, 0), Ident(kX, 11))

\* x and y
AndExpr == Bin("NodeAnd", 2, Ident(kX, 0), Ident(kY, 6))

\* x or y
OrExpr == Bin("NodeOr", 2, Ident(kX, 0), Ident(kY, 5))

\* 1 > 2 and 1 / 0
AndDivExpr ==
    Bin("NodeAnd", 6, Bin("NodeGreaterThan", 2, LitNum(1, 0), LitNum(2, 4)),
        Bin("NodeDivide", 12, LitNum(1, 10), LitNum(0, 14)))

\* 1 < 2 or 1 / 0
OrDivExpr ==
    Bin("NodeOr", 6, Bin("NodeLessThan", 2, LitNum(1, 0), LitNum(2, 4)),
        Bin("NodeDivide", 11, LitNum(1, 9), LitNum(0, 13)))

\* x.y + 1 / z
SelectAddExpr ==
    Bin("NodeAdd", 4, Bin("NodeFieldSelect", 1, Ident(kX, 0), Ident(kY, 2)),
        Bin("NodeDivide", 8, LitNum(1, 6), Ident(<<"z">>, 10)))

AddPool ==
    {Str(<<"i", "d">>), Str(<<"a">>), Str(<<>>), Num(1), GoInt(2), Float(1, 2), Bool(TRUE), Nil,
     InArr(2, <<Num(1), Num(2)>>, 0), InArr(3, <<Num(3)>>, 1), InArr(4, <<>>, 0), MapV(<<>>)}

EqualPool == AddPool \cup {GoInt(1), MapV(kY :> Num(1))}

Needles == {Str(kId), Str(kA), Str(<<>>), Num(1), Bool(TRUE), Nil}

Haystacks ==
    {MapV(kId :> Nil), MapV(kId :> Num(1)), MapV(kA :> Bool(FALSE) @@ kId :> Str(kA)),
     MapV(<<>>), InArr(2, <<Num(1), Str(kId)>>, 0), InArr(3, <<Bool(TRUE)>>, 1),
     InArr(4, <<>>, 0), InArr(5, <<Nil, Str(<<>>)>>, 0)}

A123 == InArr(1, Tens(3), 0)

IJ(a, i, j) == MapV(kA :> a @@ kI :> Num(i) @@ kJ :> Num(j))

EvalExprs ==
    << E("a[k]", IndexExpr, {MapV(kA :> a @@ kK :> k) : a \in Indexables, k \in Bounds}),
       E("a[k]", IndexExpr, {MapV(kA :> A123 @@ kK :> k) : k \in {GoInt(1), Float(1, 2), Str(<<"1">>)}}),
       E("a[i:j]", SliceExpr,
         {MapV(kA :> a @@ kI :> i @@ kJ :> j) : a \in Indexables, i \in Bounds, j \in Bounds}),
       E("a[:j]", SliceToExpr, {MapV(kA :> a @@ kJ :> j) : a \in Indexables, j \in Bounds}),
       E("a[1:2]", SliceLit(1, 2), {MapV(kA :> a) : a \in Indexables \cup {InArr(1, Tens(4), 0)}}),
       E("a[:-1]", SliceToLast, {MapV(kA :> a) : a \in Indexables \cup {InArr(1, Tens(4), 0)}}),
       E("a[2:0]", SliceLit(2, 0), {MapV(kA :> a) : a \in Indexables}),
       E("x / y", DivExpr,
         {MapV(kX :> x @@ kY :> y) : x \in Numbers, y \in Numbers \cup {Str(<<"0">>), Nil}}),
       E("x / 0", DivLitExpr, {MapV(kX :> x) : x \in Numbers}),
       E("1 / (y * 1)", DivMulExpr, {MapV(kY :> y) : y \in Numbers}),
       E("x / (y - y)", DivSubExpr, {MapV(kX :> x @@ kY :> y) : x \in Numbers, y \in Numbers}),
       E("x % y", ModExpr, {MapV(kX :> x @@ kY :> y) : x \in Numbers, y \in Numbers}),
       E("items where id > 3", WhereIdExpr,
         {MapV(kItems :> InArr(1, items, sp)) : items \in Seqs(ItemPool, MaxLen), sp \in 0..MaxSpare}),
       E("items where @", WhereSelfExpr,
         {MapV(kItems :> InArr(1, items, 0)) : items \in Seqs(TruthPool, 2)}
         \cup {MapV(<<>>), MapV(kItems :> Num(1))}),
       E("not (s.length < 2 and \"e\" in s)", MixedExpr,
         {MapV(kS :> Str(SubSeq(Hello, 1, n))) : n \in 0..MaxLen} \cup {MapV(<<>>)}),
       E("x + y", AddExpr, {MapV(kX :> x @@ kY :> y) : x \in AddPool, y \in AddPool}),
       E("x", NameExpr,
         {MapV(<<>>), MapV(kY :> Num(1))} \cup {MapV(kX :> x @@ kY :> Num(1)) : x \in AddPool}),
       E("x == y", EqualExpr, {MapV(kX :> x @@ kY :> y) : x \in EqualPool, y \in EqualPool}),
       E("x != y", NotEqualExpr, {MapV(kX :> x @@ kY :> y) : x \in EqualPool, y \in EqualPool}),
       E("x in y", InExpr, {MapV(kX :> x @@ kY :> y) : x \in Needles, y \in Haystacks}),
       E("y contains x", ContainsExpr,
         {MapV(kX :> x @@ kY :> y) : x \in Needles, y \in Haystacks}),
       E("x and y", AndExpr, {MapV(kX :> x @@ kY :> y) : x \in TruthPool, y \in TruthPool}),
       E("x or y", OrExpr, {MapV(kX :> x @@ kY :> y) : x \in TruthPool, y \in TruthPool}),
       E("1 > 2 and 1 / 0", AndDivExpr, {MapV(<<>>)}),
       E("1 < 2 or 1 / 0", OrDivExpr, {MapV(<<>>)}),
       E("x.y + 1 / z", SelectAddExpr,
         {MapV(kX :> x @@ <<"z">> :> z) : x \in {MapV(kY :> Num(1)), MapV(<<>>), Num(3)},
                                          z \in {Num(0), Num(2), Str(<<"a">>)}}) >>

ConcExprs ==
    << E("a[i:j]", SliceExpr, {IJ(A123, 0, 0), IJ(A123, 0, 1), IJ(A123, 1, 2)}),
       E("i:j", BareSliceExpr, {IJ(A123, 0, 1), IJ(A123, 1, 2)}),
       E("(a where @ > -i)[i:j]", WhereSliceExpr, {IJ(A123, 0, 0), IJ(A123, 1, 1)}),
       E("not (s.length < 2 and \"e\" in s)", MixedExpr,
         {MapV(kS :> Str(<<"h">>)), MapV(kS :> Str(<<"h", "e">>))}),
       E("x / y", DivExpr, {MapV(kX :> Num(1) @@ kY :> Num(0)), MapV(kX :> Num(1) @@ kY :> Num(2))}) >>

\* a[0] + 1
IndexPlusExpr ==
    Bin("NodeAdd", 5, Bin("NodeArrayIndex", 1, Ident(kA, 0), LitNum(0, 2)), LitNum(1, 7))

\* a[0].id
IndexFieldExpr ==
    Bin("NodeFieldSelect", 4, Bin("NodeArrayIndex", 1, Ident(kA, 0), LitNum(0, 2)), Ident(kId, 5))

\* One element, the map {id: n}.
Items(n) == InArr(1, <<MapV(kId :> Num(n))>>, 0)

NoItems == InArr(1, <<>>, 0)

\* The expressions that are type checked and the example values they are
\* checked against; some examples have the same shape and other contents.
CheckExprs ==
    << E("x / y", DivExpr,
         {MapV(kX :> Num(1) @@ kY :> Num(0)), MapV(kX :> Num(1) @@ kY :> Num(2)),
          MapV(kX :> Num(1) @@ kY :> Str(kA))}),
       E("a[k]", IndexExpr,
         {MapV(kA :> InArr(1, Tens(2), 0) @@ kK :> Num(0)),
          MapV(kA :> InArr(1, Tens(2), 0) @@ kK :> Num(5)),
          MapV(kA :> NoItems @@ kK :> Num(0))}),
       E("a[0] + 1", IndexPlusExpr, {MapV(kA :> NoItems), MapV(kA :> InArr(1, Tens(1), 0))}),
       E("a[0].id", IndexFieldExpr, {MapV(kA :> NoItems), MapV(kA :> Items(1))}),
       E("x + y", AddExpr,
         {MapV(kX :> NoItems @@ kY :> InArr(2, <<>>, 0)),
          MapV(kX :> InArr(1, Tens(1), 0) @@ kY :> InArr(2, <<>>, 0)),
          MapV(kX :> InArr(1, Tens(1), 0) @@ kY :> InArr(2, Tens(2), 0)),
          MapV(kX :> InArr(1, Tens(1), 0) @@ kY :> InArr(2, <<Str(kA)>>, 0)),
          MapV(kX :> Str(kA) @@ kY :> Num(1))}),
       E("items where id > 3", WhereIdExpr,
         {MapV(kItems :> NoItems), MapV(kItems :> Items(1)), MapV(kItems :> Items(4)),
          MapV(kItems :> InArr(1, Tens(1), 0))}),
       E("items where @", WhereSelfExpr, {MapV(kItems :> NoItems), MapV(kItems :> Items(1))}),
       E("not (s.length < 2 and \"e\" in s)", MixedExpr,
         {MapV(kS :> Str(<<"h">>)), MapV(kS :> Str(<<"h", "e">>)), MapV(kX :> Num(1))}),
       E("(a where @ > -i)[i:j]", WhereSliceExpr, {IJ(A123, 0, 0), IJ(A123, 1, 1)}) >>

ExprsOf(su) == CASE su = "eval" -> EvalExprs [] su = "check" -> CheckExprs [] OTHER -> ConcExprs

\* How Run is reached: Eval parses anew for every call; a caller that keeps
\* the AST it parsed may also run it again.
ModesOf(su) ==
    CASE su = "eval" -> {"fresh"} [] su = "check" -> {"shared"} [] OTHER -> {"shared", "fresh"}

\* A call of Eval leaves nothing behind for the next one, so one call per
\* behaviour covers them; the callers of Run call again and again.
CallsAgain(su) == su \notin {"eval", "check"}

OptionsOf(su) == CASE su = "eval" -> {FALSE, TRUE} [] su = "check" -> {TRUE} [] OTHER -> {FALSE}

Parsed == ExprsOf(suite)[expr].ast


(***************************************************************************)
(* The machine: callers, their calls of Run, and the steps of each call.   *)
(***************************************************************************)
CallersOf(su) == IF su \in {"eval", "parse"} THEN {1} ELSE Callers

\* The AST instance a call walks: 0 is the AST the callers share, p the one
\* parsed for caller p's own call.
Inst(p) == IF mode[p] = "shared" THEN 0 ELSE p

Ctx(p) == [p |-> p, A |-> ast, inst |-> Inst(p), strict |-> strict[p]]

Top(p) == stack[p][Len(stack[p])]

TopNode(p) == NodeAt(ast[Inst(p)], Top(p).n)

SetTop(p, f) == [stack[p] EXCEPT ![Len(stack[p])] = f]

NoRet == [val |-> Nil, err |-> NoErr]

\* What the caller sees of a returned (value, error) at the return.
Observe(A, val, err) ==
    [val |-> Content(Resolve(A, val)),
     err |-> IF err.k = "nil" THEN err
             ELSE [err EXCEPT !.args = [i \in 1..Len(err.args) |-> Content(Resolve(A, err.args[i]))]]]

NoResult == [val |-> Nil, err |-> NoErr, panic |-> "", obs |-> Observe(<<>>, Nil, NoErr)]

NoOutcome == [set |-> FALSE]

\* No type check was made yet.
NoCheck == [done |-> FALSE]

\* A panic is not recovered anywhere: it ends the program.
Alive == \A q \in Callers : pc[q] # "panicked"

Running(p) == Alive /\ pc[p] = "running"

Finish(p, res) ==
    /\ stack' = [stack EXCEPT ![p] = <<>>]
    /\ ret' = [ret EXCEPT ![p] = NoRet]
    /\ pc' = [pc EXCEPT ![p] = IF res.panic = "" THEN "done" ELSE "panicked"]
    /\ result' = [result EXCEPT ![p] = res]
    /\ alone' = IF mode[p] = "fresh"
                THEN [set |-> TRUE, in |-> given[p], strict |-> strict[p], obs |-> res.obs,
                      panic |-> res.panic]
                ELSE alone

\* The effect of one step of caller p's call, o being what the handler of the
\* top frame's node does next.
Apply(p, o) ==
    LET f  == Top(p)
        A1 == IF Len(o.w) > 0
              THEN [ast EXCEPT ![Inst(p)] = SetValueAt(@, f.n, o.w[1], o.w[2])]
              ELSE ast
    IN  /\ ast' = A1
        /\ UNCHANGED <<suite, expr, mode, strict, given, inp, solo, wrote, source, parsed, checked>>
        /\ CASE o.op = "call" ->
                  LET path == Append(f.n, o.side)
                  IN  IF NodeAt(ast[Inst(p)], path).Type = "nil"
                      THEN Finish(p, [NoResult EXCEPT !.panic = "nil pointer dereference"])
                      ELSE /\ stack' = [stack EXCEPT ![p] = Append(SetTop(p, o.f), Frame(path, o.v))]
                           /\ ret' = [ret EXCEPT ![p] = NoRet]
                           /\ UNCHANGED <<pc, result, alone>>
             [] o.op = "next" ->
                  /\ stack' = [stack EXCEPT ![p] = SetTop(p, o.f)]
                  /\ ret' = [ret EXCEPT ![p] = NoRet]
                  /\ UNCHANGED <<pc, result, alone>>
             [] o.op = "ret" ->
                  IF Len(stack[p]) = 1
                  THEN Finish(p, [val |-> o.val, err |-> o.err, panic |-> "",
                                  obs |-> Observe(A1, o.val, o.err)])
                  ELSE /\ stack' = [stack EXCEPT ![p] = SubSeq(@, 1, Len(@) - 1)]
                       /\ ret' = [ret EXCEPT ![p] = [val |-> o.val, err |-> o.err]]
                       /\ UNCHANGED <<pc, result, alone>>
             [] o.op = "panic" -> Finish(p, [NoResult EXCEPT !.panic = o.msg])

ArithTypes ==
    {"NodeAdd", "NodeSubtract", "NodeMultiply", "NodeDivide", "NodeModulus", "NodePower"}

CompareTypes ==
    {"NodeEqual", "NodeNotEqual", "NodeLessThan", "NodeLessThanEqual", "NodeGreaterThan",
     "NodeGreaterThanEqual"}

StringOpTypes == {"NodeIn", "NodeContains", "NodeStartsWith", "NodeEndsWith"}

\* Run(ast, input) on the shared AST, or Eval(expression, input), which
\* parses an AST of its own first.
Run(p) ==
    /\ Alive
    /\ pc[p] = "idle" \/ (pc[p] = "done" /\ CallsAgain(suite))
    /\ \E in \in ExprsOf(suite)[expr].ins, m \in ModesOf(suite), s \in OptionsOf(suite) :
          /\ mode' = [mode EXCEPT ![p] = m]
          /\ strict' = [strict EXCEPT ![p] = s]
          /\ given' = [given EXCEPT ![p] = in]
          /\ inp' = [inp EXCEPT ![p] = in]
          /\ stack' = [stack EXCEPT ![p] = <<Frame(<<>>, in)>>]
          /\ solo' = IF m = "fresh" THEN [solo EXCEPT ![p] = TRUE]
                     ELSE [q \in Callers |->
                             IF q = p THEN \A r \in Callers \ {p} :
                                              ~(pc[r] = "running" /\ mode[r] = "shared")
                             ELSE IF pc[q] = "running" /\ mode[q] = "shared" THEN FALSE
                             ELSE solo[q]]
          /\ alone' = IF m = "fresh" THEN NoOutcome ELSE alone
    /\ ast' = [ast EXCEPT ![p] = Parsed]
    /\ pc' = [pc EXCEPT ![p] = "running"]
    /\ ret' = [ret EXCEPT ![p] = NoRet]
    /\ result' = [result EXCEPT ![p] = NoResult]
    /\ wrote' = [wrote EXCEPT ![p] = FALSE]
    /\ UNCHANGED <<suite, expr, source, parsed, checked>>

StepIdentifier(p) ==
    /\ Running(p) /\ TopNode(p).Type = "NodeIdentifier"
    /\ Apply(p, runIdentifier(Ctx(p), TopNode(p), Top(p)))

StepFieldSelect(p) ==
    /\ Running(p) /\ TopNode(p).Type = "NodeFieldSelect"
    /\ Apply(p, runFieldSelect(Ctx(p), TopNode(p), Top(p), ret[p]))

StepArrayIndex(p) ==
    /\ Running(p) /\ TopNode(p).Type = "NodeArrayIndex"
    /\ Apply(p, runArrayIndex(Ctx(p), TopNode(p), Top(p), ret[p]))

StepSlice(p) ==
    /\ Running(p) /\ TopNode(p).Type = "NodeSlice"
    /\ Apply(p, runSlice(Ctx(p), TopNode(p), Top(p), ret[p]))

StepLiteral(p) ==
    /\ Running(p) /\ TopNode(p).Type = "NodeLiteral"
    /\ Apply(p, runLiteral(Ctx(p), TopNode(p), Top(p)))

StepSign(p) ==
    /\ Running(p) /\ TopNode(p).Type = "NodeSign"
    /\ Apply(p, runSign(Ctx(p), TopNode(p), Top(p), ret[p]))

StepArith(p) ==
    /\ Running(p) /\ TopNode(p).Type \in ArithTypes
    /\ Apply(p, runArith(Ctx(p), TopNode(p), Top(p), ret[p]))

StepCompare(p) ==
    /\ Running(p) /\ TopNode(p).Type \in CompareTypes
    /\ Apply(p, runCompare(Ctx(p), TopNode(p), Top(p), ret[p]))

StepAndOr(p) ==
    /\ Running(p) /\ TopNode(p).Type \in {"NodeAnd", "NodeOr"}
    /\ Apply(p, runAndOr(Ctx(p), TopNode(p), Top(p), ret[p]))

StepStringOp(p) ==
    /\ Running(p) /\ TopNode(p).Type \in StringOpTypes
    /\ Apply(p, runStringOp(Ctx(p), TopNode(p), Top(p), ret[p]))

StepNot(p) ==
    /\ Running(p) /\ TopNode(p).Type = "NodeNot"
    /\ Apply(p, runNot(Ctx(p), TopNode(p), Top(p), ret[p]))

StepWhere(p) ==
    /\ Running(p) /\ TopNode(p).Type = "NodeWhere"
    /\ Apply(p, runWhere(Ctx(p), TopNode(p), Top(p), ret[p]))


\* The value v with slot pos (from 1) of the backing store st set to x,
\* wherever v reaches that store.
RECURSIVE WriteStore(_, _, _, _)
WriteStore(v, st, pos, x) ==
    CASE v.k = "[]any" ->
           IF v.st = st THEN [v EXCEPT !.back[pos] = x]
           ELSE [v EXCEPT !.back = [i \in 1..Len(v.back) |-> WriteStore(v.back[i], st, pos, x)]]
      [] v.k = "map[string]any" ->
           MapV([key \in DOMAIN v.m |-> WriteStore(v.m[key], st, pos, x)])
      [] OTHER -> v

Marker == Str(<<"W">>)

\* The caller assigns to element 0 of the array Run returned to it.
CallerWrite(p) ==
    /\ Alive
    /\ pc[p] = "done" /\ ~wrote[p]
    /\ result[p].val.k = "[]any" /\ result[p].val.len >= 1
    /\ LET r == result[p].val
       IN  /\ ast' = IF IsAstRef(r)
                     THEN [ast EXCEPT ![r.st.inst] = SetValueAt(@, r.st.path, r.off, Marker)]
                     ELSE ast
           /\ inp' = [inp EXCEPT ![p] = WriteStore(@, r.st, r.off + 1, Marker)]
           /\ result' = [result EXCEPT ![p].val = WriteStore(@, r.st, r.off + 1, Marker)]
    /\ wrote' = [wrote EXCEPT ![p] = TRUE]
    /\ UNCHANGED <<suite, expr, pc, mode, strict, given, stack, ret, solo, alone, source, parsed,
                   checked>>

InitOf(su) ==
    /\ suite = su
    /\ expr \in 1..Len(ExprsOf(su))
    /\ ast = [i \in {0} \cup Callers |-> ExprsOf(su)[expr].ast]
    /\ pc = [p \in Callers |-> "idle"]
    /\ mode = [p \in Callers |-> "shared"]
    /\ strict = [p \in Callers |-> FALSE]
    /\ given = [p \in Callers |-> Nil]
    /\ inp = [p \in Callers |-> Nil]
    /\ stack = [p \in Callers |-> <<>>]
    /\ ret = [p \in Callers |-> NoRet]
    /\ result = [p \in Callers |-> NoResult]
    /\ solo = [p \in Callers |-> TRUE]
    /\ wrote = [p \in Callers |-> FALSE]
    /\ alone = NoOutcome
    /\ source = <<>>
    /\ parsed = [done |-> FALSE]
    /\ checked = [p \in Callers |-> NoCheck]

\* Two callers that share one parsed AST.
Init == InitOf("conc")

\* One caller of Eval.
InitEval == InitOf("eval")

Next ==
    \/ \E p \in CallersOf(suite) : Run(p)
    \/ \E p \in CallersOf(suite) : StepIdentifier(p)
    \/ \E p \in CallersOf(suite) : StepFieldSelect(p)
    \/ \E p \in CallersOf(suite) : StepArrayIndex(p)
    \/ \E p \in CallersOf(suite) : StepSlice(p)
    \/ \E p \in CallersOf(suite) : StepLiteral(p)
    \/ \E p \in CallersOf(suite) : StepSign(p)
    \/ \E p \in CallersOf(suite) : StepArith(p)
    \/ \E p \in CallersOf(suite) : StepCompare(p)
    \/ \E p \in CallersOf(suite) : StepAndOr(p)
    \/ \E p \in CallersOf(suite) : StepStringOp(p)
    \/ \E p \in CallersOf(suite) : StepNot(p)
    \/ \E p \in CallersOf(suite) : StepWhere(p)

NextEval ==
    \/ Next
    \/ \E p \in CallersOf(suite) : CallerWrite(p)

Spec == Init /\ [][Next]_vars

SpecEval == InitEval /\ [][NextEval]_vars

(***************************************************************************)
(* The lexer: Next reads one token of the expression text at a position.   *)
(***************************************************************************)
EOFRune == "EOF"

Quote == "\""

Backslash == "\\"

\* lexer.next without the advance: the rune at pos, or EOFRune past the end.
RuneAt(src, pos) == IF pos < Len(src) THEN src[pos + 1] ELSE EOFRune

IsSpace(r) == r \in {" ", "\t", "\r", "\n"}

IsDigit(r) == InSeq(Digits, r)

basic ==
    [r \in {".", "(", ")", "[", "]", ":", "+", "-", "*", "/", "%", "^"} |->
       CASE r = "." -> "dot"
         [] r = "(" -> "left-paren"
         [] r = ")" -> "right-paren"
         [] r = "[" -> "left-bracket"
         [] r = "]" -> "right-bracket"
         [] r = ":" -> "slice"
         [] r \in {"+", "-"} -> "add-sub"
         [] r \in {"*", "/", "%"} -> "mul-div"
         [] r = "^" -> "power"]

NoToken == [Type |-> "nil"]

\* The token of type typ whose text src[from .. pos) ends at pos.
newToken(typ, value, pos) == [Type |-> typ, Value |-> value, Offset |-> pos - Len(value)]

Lexed(tok, err, pos) == [tok |-> tok, err |-> err, pos |-> pos]

Text(src, from, to) == SubSeq(src, from + 1, to)

\* The position after the run of digits and dots that starts at pos.
RECURSIVE NumberEnd(_, _)
NumberEnd(src, pos) ==
    LET r == RuneAt(src, pos)
    IN  IF r = "." \/ IsDigit(r) THEN NumberEnd(src, pos + 1) ELSE pos

consumeNumber(src, start, pos) ==
    LET end == NumberEnd(src, pos)
    IN  Lexed(newToken("number", Text(src, start, end), end), NoErr, end)

IdentifierStops == {EOFRune, "<", ">", "=", "!", ".", "[", "("}

RECURSIVE IdentifierEnd(_, _)
IdentifierEnd(src, pos) ==
    LET r == RuneAt(src, pos)
    IN  IF r \in IdentifierStops \/ r \in DOMAIN basic \/ IsSpace(r) THEN pos
        ELSE IdentifierEnd(src, pos + 1)

consumeIdentifier(src, start, pos) ==
    LET end   == IdentifierEnd(src, pos)
        value == Text(src, start, end)
        typ   == CASE value = <<"a", "n", "d">> -> "and"
                   [] value = <<"o", "r">> -> "or"
                   [] value = <<"n", "o", "t">> -> "not"
                   [] value = <<"i", "n">> -> "in"
                   [] value = <<"s", "t", "a", "r", "t", "s", "W", "i", "t", "h">> -> "in"
                   [] value = <<"e", "n", "d", "s", "W", "i", "t", "h">> -> "in"
                   [] OTHER -> "identifier"
    IN  Lexed(newToken(typ, value, end), NoErr, end)

\* The text of the string literal whose opening quote was just read, and
\* the position after it; the literal ends at its closing quote or at the
\* end of the text.
RECURSIVE consumeString(_, _, _)
consumeString(src, pos, buf) ==
    LET r == RuneAt(src, pos)
    IN  IF r = EOFRune THEN Lexed(newToken("string", buf, pos), NoErr, pos)
        ELSE IF r = Backslash /\ RuneAt(src, pos + 1) = Quote
             THEN consumeString(src, pos + 2, Append(buf, Quote))
        ELSE IF r = Quote THEN Lexed(newToken("string", buf, pos + 1), NoErr, pos + 1)
        ELSE consumeString(src, pos + 1, Append(buf, r))

RECURSIVE SkipSpace(_, _)
SkipSpace(src, pos) == IF IsSpace(RuneAt(src, pos)) THEN SkipSpace(src, pos + 1) ELSE pos

\* lexer.Next: the token that starts at or after pos, or an error, and the
\* position the lexer is left at.
LexNext(src, pos) ==
    LET at == SkipSpace(src, pos)
        r  == RuneAt(src, at)
        r2 == RuneAt(src, at + 1)
    IN  CASE r = EOFRune -> Lexed(newToken("eof", <<>>, at), NoErr, at)
          [] r \in DOMAIN basic ->
               IF r = "." /\ IsDigit(r2) THEN consumeNumber(src, at, at + 1)
               ELSE IF r = "." /\ r2 = EOFRune
                    THEN \* peek at the end of the text leaves lastWidth at 0
                         Lexed(newToken(basic[r], <<>>, at + 1), NoErr, at + 1)
               ELSE Lexed(newToken(basic[r], <<r>>, at + 1), NoErr, at + 1)
          [] IsDigit(r) -> consumeNumber(src, at, at + 1)
          [] r \in {"<", ">", "!"} ->
               IF r2 = "=" THEN Lexed(newToken("comparison", <<r, "=">>, at + 2), NoErr, at + 2)
               ELSE Lexed(newToken("comparison", <<r>>, at + 1), NoErr, at + 1)
          [] r = "=" ->
               IF r2 = "=" THEN Lexed(newToken("comparison", <<"=", "=">>, at + 2), NoErr, at + 2)
               ELSE Lexed(NoToken, Err(at + 1, "= should be ==", <<>>), at + 1)
          [] r = Quote -> consumeString(src, at + 1, <<>>)
          [] OTHER -> consumeIdentifier(src, at, at + 1)

(***************************************************************************)
(* The parser: a top-down operator precedence parser over the lexer.       *)
(* Its state is the lexer's position and the current token; lexerr keeps   *)
(* the error the lexer reported last, for the properties.                  *)
(***************************************************************************)
\* The flat binding power table, for comparison with bindingPowers.
bindingPowersFlat(typ) ==
    IF typ \in {"or", "and", "in", "comparison", "slice", "add-sub", "mul-div",
                "dot", "not", "power", "left-bracket", "left-paren"}
    THEN 10 ELSE 0

bindingPowers(typ) ==
    CASE typ = "or" -> 1
      [] typ = "and" -> 2
      [] typ = "in" -> 3
      [] typ = "comparison" -> 5
      [] typ = "slice" -> 5
      [] typ = "add-sub" -> 10
      [] typ = "mul-div" -> 15
      [] typ = "dot" -> 40
      [] typ = "not" -> 45
      [] typ = "power" -> 50
      [] typ = "left-bracket" -> 60
      [] typ = "left-paren" -> 70
      [] OTHER -> 0

\* toks keeps the tokens the lexer returned, each with the position the
\* lexer was at before and after, for the properties.
NewParser == [pos |-> 0, tok |-> NoToken, lexerr |-> NoErr, toks |-> <<>>]

\* What a parsing function returns, and the parser state it leaves.
Parsing(node, err, st) == [node |-> node, err |-> err, st |-> st, panic |-> ""]

TokenName(typ) == [k |-> "TokenType", name |-> typ]

\* The one element of a singleton set: { e(x) : x \in {v} } names the value
\* v by x within e.
The(S) == CHOOSE x \in S : TRUE

advance(src, st) ==
    The({IF x.err # NoErr
         THEN [err |-> x.err, st |-> [st EXCEPT !.pos = x.pos, !.lexerr = x.err]]
         ELSE [err |-> NoErr,
               st |-> [st EXCEPT !.pos = x.pos, !.tok = x.tok,
                                 !.toks = Append(@, [from |-> st.pos, tok |-> x.tok,
                                                     to |-> x.pos])]] :
         x \in {LexNext(src, st.pos)}})

ensure(src, st, res, err, typ) ==
    IF err # NoErr THEN Parsing(NilNode, err, st)
    ELSE IF st.tok.Type = typ
         THEN The({IF a.err # NoErr THEN Parsing(NilNode, a.err, a.st)
                   ELSE Parsing(res, NoErr, a.st) :
                   a \in {advance(src, st)}})
    ELSE Parsing(NilNode,
                 Err(st.tok.Offset, "expected %s but found %s",
                     <<TokenName(typ), TokenName(st.tok.Type)>>),
                 st)

\* strconv.ParseFloat on the text of a number token, which holds digits and
\* dots only: more than one dot is a syntax error.
Dots(s) == Cardinality({i \in 1..Len(s) : s[i] = "."})

\* The digits of s as the fraction n/d, d being 0 until the dot is read.
RECURSIVE DecimalOf(_, _, _)
DecimalOf(s, n, d) ==
    IF Len(s) = 0 THEN <<n, d>>
    ELSE IF s[1] = "." THEN DecimalOf(Tail(s), n, 1)
    ELSE DecimalOf(Tail(s), n * 10 + (IndexIn(Digits, s[1]) - 1), d * 10)

ParseFloat(s) ==
    IF Dots(s) > 1
    THEN [val |-> Nil, err |-> TRUE]
    ELSE [val |-> The({Float(f[1], IF f[2] = 0 THEN 1 ELSE f[2]) : f \in {DecimalOf(s, 0, 0)}}),
          err |-> FALSE]

ArithNode(value) ==
    CASE value = <<"+">> -> "NodeAdd"
      [] value = <<"-">> -> "NodeSubtract"
      [] value = <<"*">> -> "NodeMultiply"
      [] value = <<"/">> -> "NodeDivide"
      [] value = <<"%">> -> "NodeModulus"

ComparisonNode(value) ==
    CASE value = <<"=", "=">> -> "NodeEqual"
      [] value = <<"!", "=">> -> "NodeNotEqual"
      [] value = <<"<">> -> "NodeLessThan"
      [] value = <<"<", "=">> -> "NodeLessThanEqual"
      [] value = <<">">> -> "NodeGreaterThan"
      [] value = <<">", "=">> -> "NodeGreaterThanEqual"
      [] OTHER -> "NodeUnknown"

StringCompareNode(value) ==
    CASE value = <<"i", "n">> -> "NodeIn"
      [] value = <<"s", "t", "a", "r", "t", "s", "W", "i", "t", "h">> -> "NodeStartsWith"
      [] value = <<"e", "n", "d", "s", "W", "i", "t", "h">> -> "NodeEndsWith"

RECURSIVE parse(_, _, _)
RECURSIVE ParseLoop(_, _, _, _)
RECURSIVE nud(_, _, _)
RECURSIVE led(_, _, _, _)
RECURSIVE newNodeParseRight(_, _, _, _, _, _)

\* parse: the expression that starts at the current token and extends over
\* the operators that bind tighter than bindingPower.
parse(src, st, bindingPower) ==
    IF st.tok.Type = "nil"
    THEN [Parsing(NilNode, NoErr, st) EXCEPT !.panic = "nil pointer dereference"]
    ELSE The({IF a.err # NoErr THEN Parsing(NilNode, a.err, a.st)
              ELSE The({IF n.panic # "" THEN n
                        ELSE IF n.err # NoErr THEN Parsing(NilNode, n.err, n.st)
                        ELSE ParseLoop(src, n.st, bindingPower, n.node) :
                        n \in {nud(src, a.st, st.tok)}}) :
              a \in {advance(src, st)}})

\* The loop of parse: while the current token binds tighter, it takes
\* leftNode as its left operand.
ParseLoop(src, st, bindingPower, leftNode) ==
    IF bindingPower < bindingPowers(st.tok.Type)
    THEN The({IF a.err # NoErr THEN Parsing(NilNode, a.err, a.st)
              ELSE The({IF l.panic # "" THEN l
                        ELSE IF l.err # NoErr THEN Parsing(NilNode, l.err, l.st)
                        ELSE ParseLoop(src, l.st, bindingPower, l.node) :
                        l \in {led(src, a.st, st.tok, leftNode)}}) :
              a \in {advance(src, st)}})
    ELSE Parsing(leftNode, NoErr, st)

\* The node of a prefix operator t whose operand parsed to right.
PrefixNode(t, right) ==
    CASE t.Type = "not" -> Node("NodeNot", Nil, t.Offset, NilNode, right)
      [] t.Type = "add-sub" -> Node("NodeSign", Str(t.Value), t.Offset, NilNode, right)
      [] t.Type = "slice" ->
           \* a dummy left node with value 0, the start of the slice
           Node("NodeSlice", Nil, t.Offset,
                Node("NodeLiteral", Num(0), t.Offset, NilNode, NilNode), right)

nud(src, st, t) ==
    CASE t.Type = "identifier" ->
           Parsing(Node("NodeIdentifier", Str(t.Value), t.Offset, NilNode, NilNode), NoErr, st)
      [] t.Type = "number" ->
           IF ParseFloat(t.Value).err
           THEN Parsing(NilNode,
                        Err(st.tok.Offset, "strconv.ParseFloat: parsing %q: invalid syntax",
                            <<Str(t.Value)>>),
                        st)
           ELSE Parsing(Node("NodeLiteral", ParseFloat(t.Value).val, t.Offset, NilNode, NilNode),
                        NoErr, st)
      [] t.Type = "string" ->
           Parsing(Node("NodeLiteral", Str(t.Value), t.Offset, NilNode, NilNode), NoErr, st)
      [] t.Type \in {"left-paren", "not", "add-sub", "slice"} ->
           The({IF r.panic # "" THEN r
                ELSE IF t.Type = "left-paren"
                     THEN ensure(src, r.st, r.node, r.err, "right-paren")
                ELSE IF r.err # NoErr THEN Parsing(NilNode, r.err, r.st)
                ELSE Parsing(PrefixNode(t, r.node), NoErr, r.st) :
                r \in {parse(src, st,
                              IF t.Type = "left-paren" THEN 0 ELSE bindingPowers(t.Type))}})
      [] t.Type = "eof" ->
           Parsing(NilNode, Err(st.tok.Offset, "incomplete expression, EOF found", <<>>), st)
      [] OTHER -> Parsing(NilNode, NoErr, st)

newNodeParseRight(src, st, left, t, typ, bindingPower) ==
    The({IF r.panic # "" THEN r
         ELSE IF r.err # NoErr THEN Parsing(NilNode, r.err, r.st)
         ELSE Parsing(Node(typ, Nil, t.Offset, left, r.node), NoErr, r.st) :
         r \in {parse(src, st, bindingPower)}})

\* The kind of node an infix token makes, "" for a token that makes none.
LedNode(t) ==
    CASE t.Type \in {"add-sub", "mul-div"} -> ArithNode(t.Value)
      [] t.Type = "power" -> "NodePower"
      [] t.Type = "comparison" -> ComparisonNode(t.Value)
      [] t.Type = "and" -> "NodeAnd"
      [] t.Type = "or" -> "NodeOr"
      [] t.Type = "in" -> StringCompareNode(t.Value)
      [] t.Type = "dot" -> "NodeFieldSelect"
      [] t.Type = "left-bracket" -> "NodeArrayIndex"
      [] t.Type = "slice" -> "NodeSlice"
      [] OTHER -> ""

\* The binding power led parses the right operand with.
LedPower(t) ==
    CASE t.Type = "power" -> bindingPowers(t.Type) - 1
      [] t.Type = "left-bracket" -> 0
      [] OTHER -> bindingPowers(t.Type)

led(src, st, t, n) ==
    IF LedNode(t) = "" THEN Parsing(NilNode, NoErr, st)
    ELSE The({IF t.Type = "left-bracket" /\ r.panic = ""
              THEN ensure(src, r.st, r.node, r.err, "right-bracket")
              ELSE r :
              r \in {newNodeParseRight(src, st, n, t, LedNode(t), LedPower(t))}})

\* parser.Parse, whose first advance drops the error it gets, and the
\* package's Parse around it (called without a type example).
ParserParse(src) == The({parse(src, a.st, 0) : a \in {advance(src, NewParser)}})

Parse(src) ==
    The({IF r.panic = "" /\ r.err # NoErr THEN [r EXCEPT !.node = NilNode] ELSE r :
         r \in {ParserParse(src)}})

(***************************************************************************)
(* Parsing: the expression texts, Parse applied to one of them, and a run  *)
(* of the AST it returned.                                                 *)
(***************************************************************************)
\* The pieces, one space between each two.
RECURSIVE Spaced(_)
Spaced(ps) ==
    IF Len(ps) = 0 THEN <<>>
    ELSE IF Len(ps) = 1 THEN ps[1]
    ELSE ps[1] \o <<" ">> \o Spaced(Tail(ps))

BinaryOperators ==
    {<<"+">>, <<"-">>, <<"*">>, <<"/">>, <<"%">>, <<"^">>,
     <<"=", "=">>, <<"!", "=">>, <<"<">>, <<"<", "=">>, <<">">>, <<">", "=">>,
     <<"a", "n", "d">>, <<"o", "r">>, <<"i", "n">>,
     <<"s", "t", "a", "r", "t", "s", "W", "i", "t", "h">>,
     <<"e", "n", "d", "s", "W", "i", "t", "h">>, <<".">>, <<":">>}

\* 1 op1 2 op2 3, bare and with either pair in parentheses.
Chain(op1, op2) == Spaced(<<(<<"1">>), op1, (<<"2">>), op2, (<<"3">>)>>)

ChainLeft(op1, op2) ==
    Spaced(<<(<<"(">>), (<<"1">>), op1, (<<"2">>), (<<")">>), op2, (<<"3">>)>>)

ChainRight(op1, op2) ==
    Spaced(<<(<<"1">>), op1, (<<"(">>), (<<"2">>), op2, (<<"3">>), (<<")">>)>>)

ChainSources ==
    UNION {{Chain(op1, op2), ChainLeft(op1, op2), ChainRight(op1, op2)} :
             op1 \in BinaryOperators, op2 \in BinaryOperators}

Pieces ==
    {<<"1">>, <<"a">>, <<"+">>, <<"*">>, <<"^">>, <<"(">>, <<")">>, <<"[">>, <<"]">>,
     <<"<", "=">>, <<"=">>, <<"n", "o", "t">>}

MaxPieces == 3

PieceSources == {Spaced(ps) : ps \in Seqs(Pieces, MaxPieces)}

SevenSource == Spaced(<<(<<"1">>), (<<"+">>), (<<"2">>), (<<"*">>), (<<"3">>)>>)

NineSource == <<"(", "1", " ", "+", " ", "2", ")", " ", "*", " ", "3">>

TwelveSource ==
    Spaced(<<(<<"6">>), (<<"/">>), (<<"3">>), (<<"+">>), (<<"2">>), (<<"*">>), (<<"5">>)>>)

PowerSource == <<"2", "^", "3", "^", "2">>

BracketSource == <<"1", " ", "]">>

QuoteSource == <<"0", ".", "5", " ", "+", " ", "1", Quote>>

BeginsWithSource ==
    <<"f", "o", "o", " ", "b", "e", "g", "i", "n", "s", "w", "i", "t", "h", " ",
      Quote, "b", "a", "r", Quote>>

NotFieldSource == <<"n", "o", "t", " ", "f", "o", "o", ".", "b", "a", "r">>

NotIndexFieldSource ==
    <<"n", "o", "t", " ", "f", "o", "o", "[", "0", "]", ".", "b", "a", "r">>

ExampleSources ==
    {NotFieldSource, NotIndexFieldSource, SevenSource, NineSource, TwelveSource, PowerSource, BracketSource, QuoteSource,
     BeginsWithSource,
     <<"a", " ", "[", " ", "1", " ", "]">>,
     <<"a", ".", "b">>,
     <<"a", " ", ".">>,
     <<"1", ".", "2", ".", "3">>,
     <<".", "5", " ", "+", " ", "1", ".">>,
     <<"1", " ", "=", " ", "2">>,
     <<"(", "1", " ", "+", " ", "=">>,
     <<"a", " ", "!", " ", "1">>,
     <<"a", " ", "a", "n", "d", " ", "n", "o", "t", " ", "1", " ", "<", " ", "2">>,
     <<Quote, "a", Backslash, Quote, "b", Quote, " ", "i", "n", " ", "a">>,
     <<"-", "1", " ", "*", " ", "2">>,
     <<"(", " ", "(", " ", "1", " ", ")", " ", ")">>,
     <<"1", " ", "+", " ", "2", " ", "*">>,
     <<"1", " ", "+", " ", "*", " ", "2">>,
     <<"a", " ", "[", " ", "1", " ", "-", " ", "]">>,
     <<"(", " ", "1", " ", ">", "=", " ", ")">>,
     <<"1", " ", "<">>,
     <<".">>,
     <<"1", " ", "+", " ", ".", " ", "a">>}

Sources == ChainSources \cup PieceSources \cup ExampleSources

kFoo == <<"f", "o", "o">>

kBar == <<"b", "a", "r">>

\* The inputs the AST of a text is run on.
InputsFor(src) ==
    CASE src = NotFieldSource -> {MapV(kFoo :> MapV(kBar :> v)) : v \in TruthPool}
      [] src = NotIndexFieldSource ->
           {MapV(kFoo :> InArr(1, <<MapV(kBar :> v)>>, 0)) : v \in TruthPool}
      [] OTHER -> {MapV(kA :> InArr(1, Tens(2), 0))}

NoParse == [done |-> FALSE]

\* What the interpreter of this model is run on: the parser gives a slice
\* node no Value for the bounds, and a comparison token it does not know
\* gives a node of no kind.
RECURSIVE Runs(_)
Runs(n) ==
    IF n.Type = "nil" THEN TRUE
    ELSE /\ n.Type \notin {"NodeSlice", "NodeUnknown"}
         /\ Runs(n.Left)
         /\ Runs(n.Right)

\* Parse(source, nil)
ParseSource ==
    /\ suite = "parse" /\ Alive /\ ~parsed.done
    /\ \E r \in {Parse(source)} :
           /\ parsed' = [done |-> TRUE, node |-> r.node, err |-> r.err, panic |-> r.panic,
                         tok |-> r.st.tok, lexerr |-> r.st.lexerr, toks |-> r.st.toks]
           /\ pc' = IF r.panic = "" THEN pc ELSE [p \in Callers |-> "panicked"]
    /\ UNCHANGED <<checked, suite, expr, source, ast, mode, strict, given, inp, stack, ret, result,
                   solo, wrote, alone>>

\* Run(ast, input) on the AST that Parse returned without an error.
RunParsed(p) ==
    /\ suite = "parse" /\ Alive /\ pc[p] = "idle"
    /\ parsed.done /\ parsed.err = NoErr /\ Runs(parsed.node)
    /\ \E in \in InputsFor(source) :
          /\ given' = [given EXCEPT ![p] = in]
          /\ inp' = [inp EXCEPT ![p] = in]
          /\ IF parsed.node = NilNode
             THEN /\ pc' = [pc EXCEPT ![p] = "panicked"]
                  /\ result' = [result EXCEPT ![p] =
                                  [NoResult EXCEPT !.panic = "nil pointer dereference"]]
                  /\ stack' = stack
             ELSE /\ pc' = [pc EXCEPT ![p] = "running"]
                  /\ result' = [result EXCEPT ![p] = NoResult]
                  /\ stack' = [stack EXCEPT ![p] = <<Frame(<<>>, in)>>]
    /\ mode' = [mode EXCEPT ![p] = "fresh"]
    /\ ast' = [ast EXCEPT ![p] = parsed.node]
    /\ UNCHANGED <<suite, expr, source, parsed, checked, strict, ret, solo, wrote, alone>>

InitParse ==
    /\ suite = "parse"
    /\ expr = 1
    /\ source \in Sources
    /\ parsed = NoParse
    /\ ast = [i \in {0} \cup Callers |-> NilNode]
    /\ pc = [p \in Callers |-> "idle"]
    /\ mode = [p \in Callers |-> "fresh"]
    /\ strict = [p \in Callers |-> FALSE]
    /\ given = [p \in Callers |-> Nil]
    /\ inp = [p \in Callers |-> Nil]
    /\ stack = [p \in Callers |-> <<>>]
    /\ ret = [p \in Callers |-> NoRet]
    /\ result = [p \in Callers |-> NoResult]
    /\ solo = [p \in Callers |-> TRUE]
    /\ wrote = [p \in Callers |-> FALSE]
    /\ alone = NoOutcome
    /\ checked = [p \in Callers |-> NoCheck]

NextParse ==
    \/ ParseSource
    \/ \E p \in CallersOf(suite) : RunParsed(p)
    \/ \E p \in CallersOf(suite) : StepIdentifier(p)
    \/ \E p \in CallersOf(suite) : StepFieldSelect(p)
    \/ \E p \in CallersOf(suite) : StepArrayIndex(p)
    \/ \E p \in CallersOf(suite) : StepLiteral(p)
    \/ \E p \in CallersOf(suite) : StepSign(p)
    \/ \E p \in CallersOf(suite) : StepArith(p)
    \/ \E p \in CallersOf(suite) : StepCompare(p)
    \/ \E p \in CallersOf(suite) : StepAndOr(p)
    \/ \E p \in CallersOf(suite) : StepStringOp(p)
    \/ \E p \in CallersOf(suite) : StepNot(p)

\* One caller that parses an expression text and runs what it got.
SpecParse == InitParse /\ [][NextParse]_vars


(***************************************************************************)
(* The type checker: the schema of an example value, and a schema for each *)
(* node of the AST from it.                                                *)
(***************************************************************************)
\* The nil *schema.
NilSchema == [typeName |-> "nil"]

newSchema(t) == [typeName |-> t, items |-> NilSchema, properties |-> <<>>]

schemaBool == newSchema("boolean")

schemaNumber == newSchema("number")

schemaString == newSchema("string")

schemaIsNumber(s) == s # NilSchema /\ s.typeName = "number"

schemaIsString(s) == s # NilSchema /\ s.typeName = "string"

schemaIsArray(s) == s # NilSchema /\ s.typeName = "array"

\* What %v and %s print of a *schema: String(), and for the nil pointer the
\* "<nil>" that fmt prints when String() fails on a nil receiver.
schemaText(s) == IF s = NilSchema THEN "<nil>" ELSE s.typeName

RECURSIVE getSchema(_)
getSchema(v) ==
    CASE v.k = "bool" -> schemaBool
      [] v.k \in {"int", "float64"} -> schemaNumber
      [] v.k = "string" -> schemaString
      [] v.k = "[]any" ->
           [newSchema("array") EXCEPT
               !.items = IF Len(v.a) > 0 THEN getSchema(v.a[1]) ELSE NilSchema]
      [] v.k = "map[string]any" ->
           [newSchema("object") EXCEPT
               !.properties = [key \in DOMAIN v.m |-> getSchema(v.m[key])]]
      [] OTHER -> newSchema("unknown")

\* What run returns: a schema and an error, or the panic that ended it.
Checked(s, err) == [schema |-> s, err |-> err, panic |-> ""]

NilDereference ==
    [schema |-> NilSchema, err |-> NoErr,
     panic |-> "invalid memory address or nil pointer dereference"]

CheckFailed(r) == r.panic # "" \/ r.err # NoErr

\* value.(*schema): the value is a schema and no example value.
IsSchema(value) == "typeName" \in DOMAIN value

\* The NodeIdentifier case of run.  The keys of the example map are listed
\* in the error in the order the map is ranged over, any order; the model
\* keeps their set.
runIdentifierSchema(node, value) ==
    LET name == node.Value.s
        noProperty(in) == Checked(NilSchema, Err(node.Offset, "no property %v in %v", <<name, in>>))
    IN  IF name = sAt
        THEN Checked(IF IsSchema(value) THEN value ELSE getSchema(value), NoErr)
        ELSE IF name = sLength THEN Checked(schemaNumber, NoErr)
        ELSE IF name \in {sLower, sUpper} THEN Checked(schemaString, NoErr)
        ELSE IF IsSchema(value)
             THEN IF value = NilSchema THEN NilDereference
                  ELSE IF name \in DOMAIN value.properties
                       THEN Checked(value.properties[name], NoErr)
                  ELSE noProperty(schemaText(value))
        ELSE IF value.k = "map[string]any"
             THEN IF name \in DOMAIN value.m THEN Checked(getSchema(value.m[name]), NoErr)
                  ELSE noProperty([keys |-> DOMAIN value.m])
        ELSE noProperty(value)

RECURSIVE typeCheckerRun(_, _)
runBoth(node, value) ==
    The({IF CheckFailed(l) THEN [l |-> NilSchema, r |-> NilSchema, err |-> l.err, panic |-> l.panic]
         ELSE The({IF CheckFailed(r)
                   THEN [l |-> NilSchema, r |-> NilSchema, err |-> r.err, panic |-> r.panic]
                   ELSE [l |-> l.schema, r |-> r.schema, err |-> NoErr, panic |-> ""] :
                   r \in {typeCheckerRun(node.Right, value)}}) :
         l \in {typeCheckerRun(node.Left, value)}})

\* typeChecker.run: the schema of the node's value, for the example value
\* or the schema the node is looked at in.
typeCheckerRun(node, value) ==
    LET fail(msg, args) == Checked(NilSchema, Err(node.Offset, msg, args))
        both(b, r) == IF CheckFailed(b) THEN [schema |-> NilSchema, err |-> b.err, panic |-> b.panic]
                      ELSE r
    IN  CASE node.Type = "NodeIdentifier" -> runIdentifierSchema(node, value)
          [] node.Type = "NodeFieldSelect" ->
               The({IF CheckFailed(l) THEN [l EXCEPT !.schema = NilSchema]
                    ELSE typeCheckerRun(node.Right, l.schema) :
                    l \in {typeCheckerRun(node.Left, value)}})
          [] node.Type = "NodeArrayIndex" ->
               The({both(b,
                      IF ~(schemaIsString(b.l) \/ schemaIsArray(b.l))
                      THEN fail("can only index strings or arrays but got %v", <<schemaText(b.l)>>)
                      ELSE IF schemaIsArray(b.r) THEN Checked(b.l, NoErr)
                      ELSE IF schemaIsNumber(b.r)
                           THEN IF schemaIsString(b.l) THEN Checked(b.l, NoErr)
                                ELSE Checked(b.l.items, NoErr)
                      ELSE fail("array index must be number or slice but found %v",
                                <<schemaText(b.r)>>)) :
                    b \in {runBoth(node, value)}})
          [] node.Type = "NodeSlice" ->
               The({both(b,
                      IF ~schemaIsNumber(b.l)
                      THEN fail("slice index must be a number but found %s", <<schemaText(b.l)>>)
                      ELSE IF ~schemaIsNumber(b.r)
                      THEN fail("slice index must be a number but found %s", <<schemaText(b.r)>>)
                      ELSE Checked([newSchema("array") EXCEPT !.items = b.l], NoErr)) :
                    b \in {runBoth(node, value)}})
          [] node.Type = "NodeLiteral" -> Checked(getSchema(Content(node.Value)), NoErr)
          [] node.Type = "NodeSign" ->
               The({IF CheckFailed(r) THEN [r EXCEPT !.schema = NilSchema]
                    ELSE IF ~schemaIsNumber(r.schema)
                    THEN fail("expected number but found %s", <<schemaText(r.schema)>>)
                    ELSE Checked(schemaNumber, NoErr) :
                    r \in {typeCheckerRun(node.Right, value)}})
          [] node.Type \in {"NodeAdd", "NodeSubtract", "NodeMultiply", "NodeDivide",
                            "NodeModulus", "NodePower"} ->
               The({both(b,
                      IF node.Type = "NodeAdd" /\ (schemaIsString(b.l) \/ schemaIsString(b.r))
                      THEN Checked(schemaString, NoErr)
                      ELSE IF node.Type = "NodeAdd" /\ schemaIsArray(b.l) /\ schemaIsArray(b.r)
                      THEN IF b.l.items = NilSchema \/ b.r.items = NilSchema THEN NilDereference
                           ELSE IF b.l.items.typeName # b.r.items.typeName
                           THEN fail("array item types don't match: %s vs %s",
                                     <<schemaText(b.l.items), schemaText(b.r.items)>>)
                           ELSE Checked(b.l, NoErr)
                      ELSE IF schemaIsNumber(b.l) /\ schemaIsNumber(b.r) THEN Checked(b.l, NoErr)
                      ELSE IF b.l = NilSchema \/ b.r = NilSchema THEN NilDereference
                      ELSE fail("cannot operate on incompatible types %v and %v",
                                <<b.l.typeName, b.r.typeName>>)) :
                    b \in {runBoth(node, value)}})
          [] node.Type \in {"NodeLessThan", "NodeLessThanEqual", "NodeGreaterThan",
                            "NodeGreaterThanEqual"} ->
               The({both(b,
                      IF ~schemaIsNumber(b.l) \/ ~schemaIsNumber(b.r)
                      THEN fail("cannot compare %s with %s", <<schemaText(b.l), schemaText(b.r)>>)
                      ELSE Checked(schemaBool, NoErr)) :
                    b \in {runBoth(node, value)}})
          [] node.Type \in {"NodeEqual", "NodeNotEqual", "NodeAnd", "NodeOr", "NodeIn",
                            "NodeContains", "NodeStartsWith", "NodeEndsWith"} ->
               The({both(b, Checked(schemaBool, NoErr)) : b \in {runBoth(node, value)}})
          [] node.Type = "NodeWhere" ->
               The({IF CheckFailed(l) THEN [l EXCEPT !.schema = NilSchema]
                    ELSE IF ~schemaIsArray(l.schema)
                    THEN fail("where clause requires an array, but found %s",
                              <<schemaText(l.schema)>>)
                    ELSE The({IF CheckFailed(r) THEN [r EXCEPT !.schema = NilSchema]
                              ELSE Checked(l.schema, NoErr) :
                              r \in {typeCheckerRun(node.Right, l.schema.items)}}) :
                    l \in {typeCheckerRun(node.Left, value)}})
          [] node.Type = "NodeNot" ->
               The({IF CheckFailed(r) THEN [r EXCEPT !.schema = NilSchema]
                    ELSE Checked(schemaBool, NoErr) :
                    r \in {typeCheckerRun(node.Right, value)}})
          [] OTHER -> fail("unexpected node", <<>>)

(***************************************************************************)
(* Type checking: two callers check one AST against example values, with   *)
(* TypeCheck, which runs the interpreter on the example in strict mode,    *)
(* and with the type checker.                                              *)
(***************************************************************************)
\* NewTypeChecker(ast).Run(value)
TypeCheckerRun(p) ==
    /\ suite = "check" /\ Alive /\ ~checked[p].done
    /\ \E in \in ExprsOf(suite)[expr].ins :
          \E r \in {typeCheckerRun(ast[0], Content(in))} :
              /\ checked' = [checked EXCEPT ![p] =
                                [done |-> TRUE, example |-> Content(in), schema |-> r.schema,
                                 err |-> r.err, panic |-> r.panic]]
              /\ pc' = IF r.panic = "" THEN pc ELSE [q \in Callers |-> "panicked"]
    /\ UNCHANGED <<suite, expr, source, parsed, ast, mode, strict, given, inp, stack, ret,
                   result, solo, wrote, alone>>

InitCheck == InitOf("check")

NextCheck ==
    \/ Next
    \/ \E p \in CallersOf(suite) : TypeCheckerRun(p)

\* Two callers that type check one parsed AST.
SpecCheck == InitCheck /\ [][NextCheck]_vars


(***************************************************************************)
(* Properties.                                                             *)
(***************************************************************************)
Src == ExprsOf(suite)[expr].src

Ended(p) == pc[p] \in {"done", "panicked"}

\* The call of p that ended ran on the shared AST, and the outcome of the
\* same call on an AST parsed for it alone is known.
SharedWithReference(p) ==
    /\ Ended(p) /\ mode[p] = "shared"
    /\ alone.set /\ alone.in = given[p] /\ alone.strict = strict[p]

SameAsAlone(p) == result[p].obs = alone.obs /\ result[p].panic = alone.panic

\* The bounds stored in the slice node of a[i:j] of the shared AST.
SharedBounds == NodeAt(ast[0], <<"R">>).Value.back

\* C1: every Run on the shared AST, whatever other Run is under way on that
\* AST at the same time, ends with the outcome its input gives when it runs
\* alone on an AST of its own.
C1_ConcurrentRunsIndependent ==
    \A p \in Callers : SharedWithReference(p) => SameAsAlone(p)

\* C2: whatever Run calls were made and however far they got, every AST
\* instance is the tree the parser produced (Type, Value, Left and Right of
\* every node, the Value of slice nodes included).
C2_RunNeverWritesAst ==
    \A i \in DOMAIN ast : ast[i] = Parsed

\* C3: a Run on the shared AST that no other Run on that AST overlapped,
\* following whatever completed Runs on other inputs, ends with the outcome
\* the same input gives on a freshly parsed AST.
C3_SequentialReuse ==
    \A p \in Callers : (SharedWithReference(p) /\ solo[p]) => SameAsAlone(p)

\* A Run of a[i:j] on the shared AST that followed a completed Run on other
\* bounds: the node still holds the bounds of the later Run.
C3_Witness ==
    \E p \in Callers : \E q \in Callers \ {p} :
        /\ Src = "a[i:j]"
        /\ SharedWithReference(p) /\ solo[p] /\ pc[p] = "done"
        /\ pc[q] = "done" /\ mode[q] = "shared" /\ solo[q]
        /\ given[q].m[kI] # given[p].m[kI]
        /\ SharedBounds = <<given[p].m[kI], given[p].m[kJ]>>
        /\ result[p].obs.val.k = "[]any"

\* C4: Eval always returns; no call ends in a panic.
C4_EvalNeverCrashes ==
    \A p \in Callers : pc[p] # "panicked"


\* The caller of Eval, its input, and what it got.
In(key) == given[1].m[key]

Got == result[1].obs

Failed(msg) == pc[1] = "done" /\ Got.err.k = "error" /\ Got.err.msg = msg

Returned(v) == pc[1] = "done" /\ Got.err = NoErr /\ Got.val = v

IsNumeric(v) == v.k \in {"int", "float64"}

IsZero(v) == IsNumeric(v) /\ v.n = 0 /\ (v.k = "float64" => v.d # 0)

\* The operands of the division are numbers and the divisor is 0.
DivisionByZero ==
    \/ Src = "x / y" /\ IsNumeric(In(kX)) /\ IsZero(In(kY))
    \/ Src = "x / 0" /\ IsNumeric(In(kX))
    \/ Src = "1 / (y * 1)" /\ IsZero(In(kY))
    \/ Src = "x / (y - y)" /\ IsNumeric(In(kX)) /\ IsNumeric(In(kY))

\* C5: a division whose operands are numbers and whose divisor evaluates to
\* 0 (the literal 0, an input property, or a sub-expression such as y * 1
\* or y - y) ends
\* with the error 'cannot divide by zero'; no division returns a non-finite
\* number.
C5_DivisionByZeroIsAnError ==
    /\ (Ended(1) /\ DivisionByZero) => Failed("cannot divide by zero")
    /\ (Ended(1) /\ Src \in {"x / y", "x / 0", "1 / (y * 1)", "x / (y - y)"} /\ pc[1] = "done"
          /\ Got.val.k = "float64") => Got.val.d # 0

\* A division by a divisor that a sub-expression made 0 has returned.
C5_Witness ==
    /\ Src = "x / (y - y)" /\ pc[1] = "done" /\ DivisionByZero
    /\ In(kY) = Num(2) /\ Got.err.k = "error"

\* The elements of an array or the characters of a string, one value each.
ItemsOf(v) == IF v.k = "string" THEN [i \in 1..Len(v.s) |-> Str(<<v.s[i]>>)] ELSE Content(v).a

IsIndexable(v) == v.k \in {"string", "[]any"}

IsWhole(v) == v.k = "int" \/ (v.k = "float64" /\ v.d = 1)

FromEndOf(k, n) == IF k < 0 THEN k + n ELSE k

IndexCase == Src = "a[k]" /\ Ended(1) /\ IsIndexable(In(kA)) /\ IsWhole(In(kK))

\* C6: v[k] with a whole number k is the element at position k, or k + n for
\* a negative k, when that position exists, and the error 'invalid index'
\* for every other k.
C6_IndexOrInvalidIndex ==
    IndexCase =>
        LET items == ItemsOf(In(kA))
            at    == FromEndOf(In(kK).n, Len(items))
        IN  IF 0 <= at /\ at < Len(items) THEN Returned(items[at + 1])
            ELSE Failed("invalid index")

SliceSources == {"a[i:j]", "a[:j]", "a[1:2]", "a[:-1]", "a[2:0]"}

SliceStart ==
    CASE Src = "a[i:j]" -> In(kI).n
      [] Src = "a[1:2]" -> 1
      [] Src = "a[2:0]" -> 2
      [] OTHER -> 0

SliceEnd ==
    CASE Src \in {"a[i:j]", "a[:j]"} -> In(kJ).n
      [] Src = "a[1:2]" -> 2
      [] Src = "a[2:0]" -> 0
      [] OTHER -> -1

SliceCase == Src \in SliceSources /\ Ended(1) /\ IsIndexable(In(kA))

\* The elements from position lo through position hi, as the kind v is of.
Through(v, lo, hi) ==
    IF v.k = "string" THEN Str(SubSeq(v.s, lo + 1, hi + 1))
    ELSE [k |-> "[]any", a |-> SubSeq(Content(v).a, lo + 1, hi + 1)]

C8_StartAfterEndIsAnError ==
    SliceCase =>
        LET n  == Len(ItemsOf(In(kA)))
            lo == FromEndOf(SliceStart, n)
            hi == FromEndOf(SliceEnd, n)
        IN  lo > hi => Failed("slice start cannot be greater than end")

\* C9: after the caller wrote into the array a slice operation returned to
\* it, its input is what it handed in.
C9_SliceResultIsNewContainer ==
    (Src \in SliceSources /\ wrote[1]) => Content(inp[1]) = Content(given[1])


\* Truthiness: a positive number, a non-empty string, array or map, or the
\* boolean itself.
Truthy(v) ==
    CASE v.k = "bool" -> v.b
      [] v.k \in {"int", "float64"} -> v.n > 0
      [] v.k = "string" -> Len(v.s) > 0
      [] v.k = "[]any" -> Len(v.a) > 0
      [] v.k = "map[string]any" -> DOMAIN v.m # {}
      [] OTHER -> FALSE

HasId(e) == e.k = "map[string]any" /\ kId \in DOMAIN e.m /\ IsNumeric(e.m[kId])

\* id > 3 with e as the ambient value.
IdAbove3(e) ==
    HasId(e) /\ (IF e.m[kId].k = "int" THEN e.m[kId].n > 3 ELSE e.m[kId].n > 3 * e.m[kId].d)

WhereCase ==
    /\ Src \in {"items where id > 3", "items where @"} /\ Ended(1)
    /\ kItems \in DOMAIN given[1].m /\ In(kItems).k = "[]any"

\* The predicate gives a value, not an error, for every element.
PredicateEvaluates ==
    Src = "items where @" \/ \A i \in 1..In(kItems).len : HasId(ItemsOf(In(kItems))[i])

Filtered ==
    IF Src = "items where @" THEN SelectSeq(ItemsOf(In(kItems)), Truthy)
    ELSE SelectSeq(ItemsOf(In(kItems)), IdAbove3)

\* C10: l where p, for an array l and a predicate that evaluates on every
\* element, returns the elements for which p is truthy, in their order in
\* l; the array returned has a backing store the run allocated, and the
\* input is what the caller handed in, also after the caller wrote into
\* the result.
C10_WhereFilters ==
    (WhereCase /\ PredicateEvaluates) =>
        /\ Returned([k |-> "[]any", a |-> Filtered])
        /\ result[1].val.k = "[]any" /\ result[1].val.st = RunStore(1, <<>>)
        /\ Content(inp[1]) = Content(given[1])

\* items where id > 3 kept two of three elements, and the caller has written
\* into the result.
C10_Witness ==
    /\ Src = "items where id > 3" /\ WhereCase /\ PredicateEvaluates /\ wrote[1]
    /\ In(kItems).len = 3 /\ Len(Got.val.a) = 2
    /\ ItemsOf(In(kItems))[2] = MapV(kId :> Num(1))


\* C11: in strict mode, a where whose predicate fails on an element ends with
\* that error, not with a filtered array.
C11_StrictWhereReturnsPredicateError ==
    (WhereCase /\ strict[1] /\ ~PredicateEvaluates) => Failed("cannot get %v from %v")


\* The string form of a string, a number or a boolean of the inputs.
StringForm(v) ==
    CASE v.k = "string" -> v.s
      [] v = Num(1) -> <<"1">>
      [] v = GoInt(2) -> <<"2">>
      [] v = Float(1, 2) -> <<"0", ".", "5">>
      [] v = Bool(TRUE) -> <<"t", "r", "u", "e">>

HasStringForm(v) == v.k \in {"string", "int", "float64", "bool"}

Numerator(v) == v.n

Denominator(v) == IF v.k = "int" THEN 1 ELSE v.d

C18_IdentifierLookup ==
    (Src = "x" /\ Ended(1)) =>
        IF kX \in DOMAIN given[1].m THEN Returned(Content(In(kX)))
        ELSE IF strict[1] THEN Failed("cannot get %v from %v") /\ Got.val = Nil
        ELSE Returned(Nil)

\* A strict lookup of an absent key has ended.
C18_Witness ==
    /\ Src = "x" /\ pc[1] = "done" /\ strict[1]
    /\ given[1] = MapV(kY :> Num(1)) /\ Got.err.k = "error"

\* C20: x and y, x or y are the conjunction and the disjunction of the
\* truthiness of both operands, and the right operand's error is returned
\* also when the left operand decides: 1 > 2 and 1 / 0, 1 < 2 or 1 / 0 fail.
C20_AndOrEvaluateBoth ==
    /\ (Src = "x and y" /\ Ended(1)) =>
           Returned(Bool(Truthy(Content(In(kX))) /\ Truthy(Content(In(kY)))))
    /\ (Src = "x or y" /\ Ended(1)) =>
           Returned(Bool(Truthy(Content(In(kX))) \/ Truthy(Content(In(kY)))))
    /\ (Src \in {"1 > 2 and 1 / 0", "1 < 2 or 1 / 0"} /\ Ended(1)) =>
           Failed("cannot divide by zero")

\* 1 < 2 or 1 / 0 has failed with the error of its division.
C20_Witness ==
    /\ Src = "1 < 2 or 1 / 0" /\ pc[1] = "done"
    /\ Got.err.k = "error" /\ Got.err.offset = 11


\* The step of caller p is the call of the right operand of a binary node.
CallsRight(p) ==
    /\ pc[p] = "running" /\ Len(stack'[p]) = Len(stack[p]) + 1
    /\ stack'[p][Len(stack'[p])].n = Append(Top(p).n, "R")
    /\ TopNode(p).Left.Type # "nil"

\* The call on top of caller p's stack has just got an error from the call
\* it made, and p takes its next step.
StepsOnError(p) == pc[p] = "running" /\ ret[p].err # NoErr /\ stack'[p] # stack[p]

\* The error goes to the caller of the call unchanged, with no value.
PassesErrorUp(p) ==
    IF Len(stack[p]) = 1
    THEN pc'[p] = "done" /\ result'[p].err = ret[p].err /\ result'[p].val = Nil
    ELSE stack'[p] = SubSeq(stack[p], 1, Len(stack[p]) - 1)
         /\ ret'[p] = [val |-> Nil, err |-> ret[p].err]

\* C19: the right operand of a binary node is called only after the left
\* operand returned, and returned no error; an error a call returns is
\* returned by the call above it unchanged and with no value, up to the
\* caller of Run.
C19_LeftFirstAndErrorsPropagate ==
    [][\A p \in Callers :
          /\ CallsRight(p) => (Top(p).pc >= 1 /\ (Top(p).pc = 1 => ret[p].err = NoErr))
          /\ StepsOnError(p) => PassesErrorUp(p)]_vars

(***************************************************************************)
(* Properties of parsing.                                                  *)
(***************************************************************************)
\* Parse has returned, and it returned an AST and no error.
ParseReturned == parsed.done /\ parsed.panic = ""

ParsedOk == ParseReturned /\ parsed.err = NoErr

\* A tree without its offsets.
RECURSIVE Shape(_)
Shape(n) ==
    IF n.Type = "nil" THEN NilNode
    ELSE [Type |-> n.Type, Value |-> n.Value, Left |-> Shape(n.Left), Right |-> Shape(n.Right)]

\* The binding power of a binary operator, by its text.
Binds(op) ==
    CASE op = <<"o", "r">> -> 1
      [] op = <<"a", "n", "d">> -> 2
      [] op \in {<<"i", "n">>, <<"s", "t", "a", "r", "t", "s", "W", "i", "t", "h">>,
                 <<"e", "n", "d", "s", "W", "i", "t", "h">>} -> 3
      [] op \in {<<"=", "=">>, <<"!", "=">>, <<"<">>, <<"<", "=">>, <<">">>, <<">", "=">>,
                 <<":">>} -> 5
      [] op \in {<<"+">>, <<"-">>} -> 10
      [] op \in {<<"*">>, <<"/">>, <<"%">>} -> 15
      [] op = <<".">> -> 40
      [] op = <<"^">> -> 50

\* The kind of node of a binary operator, by its text.
KindOf(op) ==
    CASE op = <<"o", "r">> -> "NodeOr"
      [] op = <<"a", "n", "d">> -> "NodeAnd"
      [] op = <<"i", "n">> -> "NodeIn"
      [] op = <<"s", "t", "a", "r", "t", "s", "W", "i", "t", "h">> -> "NodeStartsWith"
      [] op = <<"e", "n", "d", "s", "W", "i", "t", "h">> -> "NodeEndsWith"
      [] op = <<"=", "=">> -> "NodeEqual"
      [] op = <<"!", "=">> -> "NodeNotEqual"
      [] op = <<"<">> -> "NodeLessThan"
      [] op = <<"<", "=">> -> "NodeLessThanEqual"
      [] op = <<">">> -> "NodeGreaterThan"
      [] op = <<">", "=">> -> "NodeGreaterThanEqual"
      [] op = <<":">> -> "NodeSlice"
      [] op = <<"+">> -> "NodeAdd"
      [] op = <<"-">> -> "NodeSubtract"
      [] op = <<"*">> -> "NodeMultiply"
      [] op = <<"/">> -> "NodeDivide"
      [] op = <<"%">> -> "NodeModulus"
      [] op = <<".">> -> "NodeFieldSelect"
      [] op = <<"^">> -> "NodePower"

Operand(k) == Shape(LitNum(k, 0))

Operation(op, left, right) == [Type |-> KindOf(op), Value |-> Nil, Left |-> left, Right |-> right]

\* op2(op1(1, 2), 3) and op1(1, op2(2, 3))
GroupedLeft(op1, op2) == Operation(op2, Operation(op1, Operand(1), Operand(2)), Operand(3))

GroupedRight(op1, op2) == Operation(op1, Operand(1), Operation(op2, Operand(2), Operand(3)))

TakesRight(op1, op2) ==
    \/ Binds(op2) > Binds(op1)
    \/ Binds(op2) = Binds(op1) /\ op1 = <<"^">>

\* The run of the parsed AST ended with the number k.
Evaluates(k) == pc[1] = "done" => (result[1].err = NoErr /\ result[1].val = Num(k))

\* The texts of ChainSources, each with the tree it stands for.
Groupings ==
    UNION {{<<Chain(op1, op2), IF TakesRight(op1, op2) THEN GroupedRight(op1, op2)
                               ELSE GroupedLeft(op1, op2)>>,
            <<ChainLeft(op1, op2), GroupedLeft(op1, op2)>>,
            <<ChainRight(op1, op2), GroupedRight(op1, op2)>>} :
             op1 \in BinaryOperators, op2 \in BinaryOperators}

\* C12: the AST of `1 op1 2 op2 3` is op1(1, op2(2, 3)) when op2 binds
\* tighter than op1, or as tight and both are `^`, and op2(op1(1, 2), 3)
\* otherwise; parentheses around either pair make that pair the operand;
\* and the ASTs of `1 + 2 * 3`, `(1 + 2) * 3`, `6 / 3 + 2 * 5` and `2^3^2`
\* evaluate to 7, 9, 12 and 512.
C12_BindingPowerGroups ==
    parsed.done =>
      /\ source \in ChainSources =>
            (ParsedOk /\ <<source, Shape(parsed.node)>> \in Groupings)
      /\ source \in {SevenSource, NineSource, TwelveSource, PowerSource} =>
            (ParsedOk /\ pc[1] # "panicked")
      /\ source = SevenSource => Evaluates(7)
      /\ source = NineSource => Evaluates(9)
      /\ source = TwelveSource => Evaluates(12)
      /\ source = PowerSource => Evaluates(512)

C12_Witness ==
    /\ source = PowerSource /\ pc[1] = "done" /\ result[1].val = Num(512)
    /\ Shape(parsed.node) =
         Operation(<<"^">>, Operand(2), Operation(<<"^">>, Operand(3), Operand(2)))

\* Parse returned the error that names the token found where the end of the
\* text was expected.
ExpectedEof ==
    /\ ParseReturned /\ parsed.node = NilNode /\ parsed.err # NoErr
    /\ parsed.err.msg = "expected %s but found %s"
    /\ parsed.err.args[1] = TokenName("eof")

\* C13: an AST that Parse returns without an error was built from the whole
\* token stream, the token the parser stopped at being the end of the text;
\* and for `1 ]`, `0.5 + 1"` and `foo beginswith "bar"` Parse returns the
\* error 'expected eof but found ...'.
C13_TrailingTokensAreAnError ==
    parsed.done =>
      /\ (ParsedOk /\ parsed.node # NilNode) => parsed.tok.Type = "eof"
      /\ source \in {BracketSource, QuoteSource, BeginsWithSource} => ExpectedEof

\* Texts after which an operand is expected: nothing, a binary operator, an
\* opening parenthesis or bracket, a prefix operator.
OperandPrefixes ==
    {<<>>, <<(<<"1">>), (<<"+">>)>>, <<(<<"1">>), (<<"*">>)>>, <<(<<"1">>), (<<"<", "=">>)>>,
     <<(<<"(">>)>>, <<(<<"a">>), (<<"[">>)>>, <<(<<"n", "o", "t">>)>>, <<(<<"+">>)>>}

\* Tokens that cannot begin an operand.
NonOperands == {<<")">>, <<"]">>, <<"<", "=">>, <<"*">>, <<"^">>}

NonOperandSources ==
    {Spaced(Append(pre, bad)) : pre \in OperandPrefixes, bad \in NonOperands}
    \cup {<<".">>, <<"1", " ", "+", " ", ".", " ", "a">>}

EndedSources == {Spaced(pre) : pre \in OperandPrefixes}

ParseFailed == ParseReturned /\ parsed.node = NilNode /\ parsed.err # NoErr

\* C14a: where an operand is expected and the text ends, Parse returns the
\* error 'incomplete expression, EOF found' and no AST.
EndOfInputIsIncomplete ==
    (parsed.done /\ source \in EndedSources) =>
        (ParseFailed /\ parsed.err.msg = "incomplete expression, EOF found")

\* C14: where an operand is expected and the token found is a right paren,
\* a right bracket, a dot or a binary operator, Parse returns an error and
\* no AST; where the text ends there, the error is 'incomplete expression'.
C14_NonOperandIsAnError ==
    /\ (parsed.done /\ source \in NonOperandSources) => ParseFailed
    /\ EndOfInputIsIncomplete

UnaryKinds == {"NodeNot", "NodeSign"}

LeafKinds == {"NodeIdentifier", "NodeLiteral"}

\* Every node of the tree n has the children of its kind: a unary kind a
\* Right and no Left, a leaf neither, every other kind both.
RECURSIVE WellFormed(_)
WellFormed(n) ==
    IF n.Type \in LeafKinds THEN n.Left = NilNode /\ n.Right = NilNode
    ELSE IF n.Type \in UnaryKinds
         THEN n.Left = NilNode /\ n.Right # NilNode /\ WellFormed(n.Right)
    ELSE /\ n.Left # NilNode /\ n.Right # NilNode
         /\ WellFormed(n.Left) /\ WellFormed(n.Right)

\* C15: every node of an AST that Parse returns without an error has the
\* children of its kind: not and sign a Right and no Left, a binary kind a
\* Left and a Right, an identifier or a literal no child.
C15_ParsedNodesWellFormed ==
    (ParsedOk /\ parsed.node # NilNode) => WellFormed(parsed.node)

\* The lexer reported an error during Parse.
LexerFailed == parsed.done /\ parsed.lexerr # NoErr

\* C16: when the lexer reported an error for a token, at the first token or
\* at a later one, Parse returns that error and no AST.
C16_LexerErrorIsReturned ==
    LexerFailed => (ParseFailed /\ parsed.err = parsed.lexerr)

\* C16a: the same for the tokens after the first.
LaterLexerErrorIsReturned ==
    (LexerFailed /\ parsed.tok # NoToken) => (ParseFailed /\ parsed.err = parsed.lexerr)

(***************************************************************************)
(* Properties of the operators, continued.                                 *)
(***************************************************************************)
\* The contents of a value with every number as a float64.
RECURSIVE Normal(_)
Normal(v) ==
    CASE v.k = "int" -> Num(v.n)
      [] v.k = "[]any" -> [k |-> "[]any", a |-> [i \in 1..Len(v.a) |-> Normal(v.a[i])]]
      [] v.k = "map[string]any" -> MapV([key \in DOMAIN v.m |-> Normal(v.m[key])])
      [] OTHER -> v

SameKind(x, y) == Normal(Content(x)).k = Normal(Content(y)).k

StructurallyEqual(x, y) ==
    SameKind(x, y) /\ Normal(Content(x)) = Normal(Content(y))

BothContainers(x, y) == x.k = y.k /\ x.k \in {"[]any", "map[string]any"}

\* C21: x == y returns true exactly when x and y are structurally equal
\* with every number taken as a float64, two arrays or two maps included,
\* x != y returns the negation, and neither fails.
C21_EqualityIsStructural ==
    (Src \in {"x == y", "x != y"} /\ Ended(1)) =>
        Returned(Bool(StructurallyEqual(In(kX), In(kY)) = (Src = "x == y")))

\* C21a: the same for every pair of operands other than two arrays or two
\* maps.
EqualityOfScalars ==
    (Src \in {"x == y", "x != y"} /\ Ended(1) /\ ~BothContainers(In(kX), In(kY))) =>
        Returned(Bool(StructurallyEqual(In(kX), In(kY)) = (Src = "x == y")))

\* The value of foo.bar, or of foo[0].bar, in the input.
FooBar ==
    IF source = NotFieldSource THEN Content(given[1].m[kFoo]).m[kBar]
    ELSE Content(given[1].m[kFoo]).a[1].m[kBar]

\* C23: `not foo.bar` and `not foo[0].bar` return the negated truthiness of
\* the value of foo.bar and of foo[0].bar.
C23_NotAppliesToChain ==
    (source \in {NotFieldSource, NotIndexFieldSource} /\ Ended(1)) =>
        Returned(Bool(~Truthy(FooBar)))

Membership == Src \in {"x in y", "y contains x"} /\ Ended(1)

IsKeyOf(x, m) == x.k = "string" /\ x.s \in DOMAIN m.m

IsElementOf(x, a) == \E i \in 1..Len(Content(a).a) : Content(a).a[i] = Content(x)

\* C24a: x in a, and a contains x, is true exactly when an element of the
\* array a is x.
ArrayMembership ==
    (Membership /\ In(kY).k = "[]any") => Returned(Bool(IsElementOf(In(kX), In(kY))))

\* C24: for a map m and a string k, k in m, and m contains k, is true
\* exactly when k is a key of m, whatever is stored under it, null
\* included; for an array a, x in a is true exactly when an element of a
\* is x.
C24_MembershipByKeyOrElement ==
    /\ (Membership /\ In(kY).k = "map[string]any" /\ In(kX).k = "string") =>
           Returned(Bool(IsKeyOf(In(kX), In(kY))))
    /\ ArrayMembership

\* What the value Run returned to p shows now.
HeldNow(p) == Content(Resolve(ast, result[p].val))

\* C28: the value that a Run no other Run overlapped returned to its caller
\* shows that caller what it showed at the return, whatever Run was made on
\* the same AST since.
C28_ReturnedValueIsKept ==
    \A p \in Callers : (pc[p] = "done" /\ solo[p]) => HeldNow(p) = result[p].obs.val

\* C29: Parse returns an AST or an error, exactly one of the two and never
\* neither, for every text.
C29_ParseReturnsNodeOrError ==
    ParseReturned => ((parsed.node # NilNode) # (parsed.err # NoErr))

\* Parse never returns an AST together with an error.
NeverNodeAndError ==
    ParseReturned => ~(parsed.node # NilNode /\ parsed.err # NoErr)

\* The tokens the lexer returned while the text was parsed.
LexedTokens == IF parsed.done THEN parsed.toks ELSE <<>>

\* The position of the first character of the token the lexer looked for
\* from position from: the first one that is no white space.
Begins(src, from) == SkipSpace(src, from)

\* The literal that begins at position b is closed by the character before
\* position e: a quote that is not the opening one and that no backslash
\* escapes.
Closes(src, b, e) == e >= b + 2 /\ src[e] = Quote /\ src[e - 1] # Backslash

ClosedStringIsAToken ==
    \E i \in DOMAIN LexedTokens :
        /\ LexedTokens[i].tok.Type = "string"
        /\ Closes(source, Begins(source, LexedTokens[i].from), LexedTokens[i].to)

\* The token's Offset is the position of its first character.
OffsetBegins(t) == t.tok.Offset = Begins(source, t.from)

\* C27: the Offset of every token the lexer returns is the position in the
\* text at which the token begins, and lies within 0 .. the length of the
\* text.
C27_OffsetIsWhereTheTokenBegins ==
    \A i \in DOMAIN LexedTokens :
        /\ OffsetBegins(LexedTokens[i])
        /\ LexedTokens[i].tok.Offset \in 0 .. Len(source)

\* The Offset of every token lies within the text.
OffsetWithinText ==
    \A i \in DOMAIN LexedTokens : LexedTokens[i].tok.Offset \in 0 .. Len(source)

\* A token that is no string literal and has a text, and the token of the
\* end of the text, have the Offset at which they begin.
OffsetOfTokensWithText ==
    \A i \in DOMAIN LexedTokens :
        (/\ LexedTokens[i].tok.Type # "string"
         /\ LexedTokens[i].tok.Value # <<>> \/ LexedTokens[i].tok.Type = "eof")
            => OffsetBegins(LexedTokens[i])

\* A string literal's Offset is not where it begins.
StringOffsetIsOff ==
    \A i \in DOMAIN LexedTokens :
        LexedTokens[i].tok.Type = "string" => ~OffsetBegins(LexedTokens[i])

\* The properties of an example value that are arrays.
ArrayProperties(example) == {key \in DOMAIN example.m : example.m[key].k = "[]any"}

\* The schema of the array at key has the item schema items.
ItemSchemaIs(example, key, items) ==
    /\ getSchema(example).properties[key].typeName = "array"
    /\ getSchema(example).properties[key].items = items

\* C25: in the schema of an example value an empty array is an array whose
\* item schema is the unknown schema, and an array with elements is an array
\* whose item schema is the schema of its first element.
C25_ItemSchemaOfArrays ==
    \A p \in Callers :
        checked[p].done =>
            \A key \in ArrayProperties(checked[p].example) :
                ItemSchemaIs(checked[p].example, key,
                             IF Len(checked[p].example.m[key].a) = 0 THEN newSchema("unknown")
                             ELSE getSchema(checked[p].example.m[key].a[1]))

\* An array with elements has the item schema of its first element.
ItemSchemaOfFirstElement ==
    \A p \in Callers :
        checked[p].done =>
            \A key \in ArrayProperties(checked[p].example) :
                Len(checked[p].example.m[key].a) > 0 =>
                    ItemSchemaIs(checked[p].example, key,
                                 getSchema(checked[p].example.m[key].a[1]))

\* An empty array has no item schema.
ItemSchemaOfEmptyIsAbsent ==
    \A p \in Callers :
        checked[p].done =>
            \A key \in ArrayProperties(checked[p].example) :
                Len(checked[p].example.m[key].a) = 0 =>
                    ItemSchemaIs(checked[p].example, key, NilSchema)

\* The type checker has returned to p: a schema or an error, and no panic.
CheckReturned(p) == checked[p].done /\ checked[p].panic = ""

\* C30: the type checker returns a schema or an Error for every AST and
\* every example value; it never ends in the dereference of an absent schema.
C30_TypeCheckerReturns ==
    \A p \in Callers :
        checked[p].done =>
            /\ checked[p].panic = ""
            /\ checked[p].err # NoErr \/ checked[p].schema # NilSchema

\* The type checker never ends in a panic.
TypeCheckerNeverPanics == \A p \in Callers : checked[p].done => checked[p].panic = ""

\* Against an example in which no array is empty the type checker returns
\* a schema or an Error.
ReturnsForArraysWithElements ==
    \A p \in Callers :
        (/\ checked[p].done
         /\ \A key \in ArrayProperties(checked[p].example) :
                Len(checked[p].example.m[key].a) > 0)
            => (/\ checked[p].panic = ""
                /\ checked[p].err # NoErr \/ checked[p].schema # NilSchema)

\* TypeCheck has returned to p.
TypeChecked(p) == suite = "check" /\ pc[p] = "done"

\* The example values of two calls have the same schema.
SameSchema(v, w) == getSchema(Content(v)) = getSchema(Content(w))

\* C22: TypeCheck accepts both or rejects both of two example values that
\* have the same schema, whatever their contents.
C22_VerdictDependsOnSchemaOnly ==
    \A p, q \in Callers :
        (TypeChecked(p) /\ TypeChecked(q) /\ SameSchema(given[p], given[q]))
            => ((result[p].err = NoErr) <=> (result[q].err = NoErr))

\* The type checker accepts both or rejects both of two example values that
\* have the same schema.
CheckerVerdictDependsOnSchemaOnly ==
    \A p, q \in Callers :
        (/\ checked[p].done /\ checked[q].done
         /\ getSchema(checked[p].example) = getSchema(checked[q].example))
            => (/\ (checked[p].err = NoErr) <=> (checked[q].err = NoErr)
                /\ (checked[p].panic = "") <=> (checked[q].panic = ""))

\* The type checker told two example values of one schema and other
\* contents apart from neither.
SameSchemaOtherContents ==
    \E p, q \in Callers :
        /\ checked[p].done /\ checked[q].done
        /\ checked[p].example # checked[q].example
        /\ getSchema(checked[p].example) = getSchema(checked[q].example)

====
